---- MODULE Spec2Model ----
(***************************************************************************)
(* A model of the pinloki replication writer (Writer::run and the helpers  *)
(* it calls) of MaxScale, written from                                     *)
(*   src/server/modules/routing/pinloki/writer.cc                          *)
(*   src/server/modules/routing/pinloki/rpl_event.cc                       *)
(* and of the CsMonitorServer functions the first file also holds.         *)
(* The background thread, a reader calling get_gtid_io_pos, the thread     *)
(* running ~Writer, the coordination worker and the operator who sets the  *)
(* bootstrap GTID list are the processes.                                  *)
(***************************************************************************)
EXTENDS Integers, Sequences, FiniteSets, TLC

(***************************************************************************)
(* Bounds of the model.                                                    *)
(***************************************************************************)
\* checkpoint writes counted per transaction; the count stops here
MaxWrites == 2
\* clock ticks that make up the one second of the back-off wait
BackoffTicks == 2

\* (domain, sequence number) of the GTID events the master sends
EventGtids == {<<0, 1>>, <<0, 2>>, <<1, 1>>}
\* sequence numbers are unsigned and count modulo this (2^64 in the code)
SeqModulus == 16

\* values of a byte: bytes are narrower than 8 bits, so that a word of four
\* bytes is a number the model checker can hold
ByteMod == 200

\* binlog file names, as bytes
FileNames == {<<>>, <<98>>, <<98, 105>>}
\* server ids and positions given to the functions that build events
EventServerIds == {1, 201}
EventPositions == {4, 1000}

\* server id in the header of the events the master sends
ServerIds == {1}

\* the count of events pulled after the stop request is kept up to this number
MaxLatePulls == 2

\* Columnstore servers the monitor knows, by number; 0 stands for the null
\* pointer
CsServers == {1, 2, 3}

(***************************************************************************)
(* Gtid and GtidList (maxsql).  A GtidList is a sequence of Gtid records   *)
(* with at most one record per domain, kept in domain order.               *)
(***************************************************************************)
Gtid(d, srv, seq) == [domain_id |-> d, server_id |-> srv, sequence_nr |-> seq]

\* GtidList::is_valid: at least one gtid
is_valid(list) == Len(list) > 0

\* Gtid::previous: the gtid one sequence number earlier, clamped at 0
previous(g) ==
    Gtid(g.domain_id, g.server_id,
         IF g.sequence_nr > 0 THEN g.sequence_nr - 1 ELSE 0)

\* GtidList::replace: overwrite the entry of the gtid's domain or insert it
replace(list, g) ==
    LET keep   == SelectSeq(list, LAMBDA x : x.domain_id # g.domain_id)
        before == SelectSeq(keep, LAMBDA x : x.domain_id < g.domain_id)
        after  == SelectSeq(keep, LAMBDA x : x.domain_id > g.domain_id)
    IN  before \o <<g>> \o after

\* separators of the textual form, as characters that are no digit
Dash == -1
Comma == -2

RECURSIVE to_string(_)
\* GtidList::to_string: "domain-server-sequence" joined by commas
to_string(list) ==
    IF list = <<>> THEN <<>>
    ELSE LET g    == Head(list)
             one  == <<g.domain_id, Dash, g.server_id, Dash, g.sequence_nr>>
             rest == to_string(Tail(list))
         IN  IF rest = <<>> THEN one ELSE one \o <<Comma>> \o rest

\* GtidList::from_string: parse the comma separated triples
from_string(text) ==
    IF text = <<>> THEN <<>>
    ELSE [i \in 1..((Len(text) + 1) \div 6) |->
            Gtid(text[6 * (i - 1) + 1], text[6 * (i - 1) + 3], text[6 * (i - 1) + 5])]

(***************************************************************************)
(* RplEvent (rpl_event.cc): an event as a buffer of bytes.  Offsets count  *)
(* from 0 as in the code; raw[off + 1] is the byte at offset off.          *)
(***************************************************************************)
HEADER_LEN == 19

\* type codes and the flag of an artificial event (mariadb_rpl.h)
QUERY_EVENT == 2
ROTATE_EVENT == 4
BINLOG_CHECKPOINT_EVENT == 161
LOG_EVENT_ARTIFICIAL_F == 32
GTID_EVENT == 162
\* flag bits of a GTID event
FL_STANDALONE == 1
FL_GROUP_COMMIT_ID == 2

RECURSIVE set_byte(_, _)
\* mariadb::set_byte2/4/8: the n bytes of value, least significant first
set_byte(value, n) ==
    IF n = 0 THEN <<>>
    ELSE <<value % ByteMod>> \o set_byte(value \div ByteMod, n - 1)

RECURSIVE get_byte(_, _, _)
\* mariadb::get_byte2/4: the number held by the n bytes at offset off
get_byte(raw, off, n) ==
    IF n = 0 THEN 0
    ELSE raw[off + 1] + ByteMod * get_byte(raw, off + 1, n - 1)

\* weight of the byte at position i in the k-th sum of the checksum
Weight(i, k) == IF k = 0 THEN 1 ELSE IF k = 1 THEN i ELSE (i * i) % ByteMod

RECURSIVE ByteSum(_, _)
\* the k-th sum of the checksum: weighted sum of the bytes, as a byte
ByteSum(raw, k) ==
    IF raw = <<>> THEN 0
    ELSE (ByteSum(SubSeq(raw, 1, Len(raw) - 1), k)
          + Weight(Len(raw), k) * (raw[Len(raw)] + 1)) % ByteMod

\* crc32(0, data, len) of zlib: a checksum of four bytes over all the bytes
\* given and their positions
crc32(raw) ==
    get_byte(<<ByteSum(raw, 0), ByteSum(raw, 1), ByteSum(raw, 2), Len(raw) % ByteMod>>,
             0, 4)

\* the buffer with bytes written at offset off
Put(raw, off, bytes) ==
    [i \in 1..Len(raw) |->
        IF off < i /\ i <= off + Len(bytes) THEN bytes[i - off] ELSE raw[i]]

\* std::vector<char> data(size)
Zeroes(size) == [i \in 1..size |-> 0]

\* value & flag for a flag of one bit in the low byte of value
BitAnd(value, flag) == (((value % ByteMod) \div flag) % 2) * flag

\* a rotate event whose position in the new file takes four bytes, not eight
create_rotate_event_pos4(file_name, server_id, pos, artificial) ==
    LET size == HEADER_LEN + Len(file_name) + 12
        d1 == Put(Zeroes(size), 4, <<ROTATE_EVENT>>)
        d2 == Put(d1, 5, set_byte(server_id, 4))
        d3 == Put(d2, 9, set_byte(size, 4))
        d4 == Put(d3, 13, set_byte(pos, 4))
        d5 == Put(d4, 17, set_byte(IF artificial THEN LOG_EVENT_ARTIFICIAL_F ELSE 0, 2))
        d6 == Put(d5, 19, set_byte(4, 4))
        d7 == Put(d6, 23, file_name)
    IN  Put(d7, size - 4, set_byte(crc32(SubSeq(d7, 1, size - 4)), 4))

\* a decoder that takes an event for artificial only if no other flag is set
rotate_sole_flag(ev) ==
    [is_fake      |-> ev.m_timestamp = 0,
     is_artifical |-> ev.m_flags = LOG_EVENT_ARTIFICIAL_F,
     file_name    |-> SubSeq(ev.m_raw, HEADER_LEN + 8 + 1, Len(ev.m_raw) - 4)]

\* a rotate event that carries a timestamp unless it is artificial
create_rotate_event_stamped(file_name, server_id, pos, artificial) ==
    LET size == HEADER_LEN + Len(file_name) + 12
        d1 == Put(Zeroes(size), 0, set_byte(IF artificial THEN 0 ELSE 1, 4))
        d2 == Put(d1, 4, <<ROTATE_EVENT>>)
        d3 == Put(d2, 5, set_byte(server_id, 4))
        d4 == Put(d3, 9, set_byte(size, 4))
        d5 == Put(d4, 13, set_byte(pos, 4))
        d6 == Put(d5, 17, set_byte(IF artificial THEN LOG_EVENT_ARTIFICIAL_F ELSE 0, 2))
        d7 == Put(d6, 19, set_byte(4, 8))
        d8 == Put(d7, 27, file_name)
    IN  Put(d8, size - 4, set_byte(crc32(SubSeq(d8, 1, size - 4)), 4))

\* a decoder that reads a commit id behind the flags whatever the flags (the
\* low bytes of it; the ids at hand have no more)
gtid_event_of_raw_any_flags(ev) ==
    [gtid      |-> Gtid(get_byte(ev.m_raw, HEADER_LEN + 8, 4), 0,
                        get_byte(ev.m_raw, HEADER_LEN, 8)),
     flags     |-> ev.m_raw[HEADER_LEN + 12 + 1],
     commit_id |-> get_byte(ev.m_raw, HEADER_LEN + 13, 2)]

\* a reader that sets the position to the end of the bytes it has read
read_event_to_end(file, file_pos, failure) ==
    IF failure # "none" \/ Len(file) - file_pos < HEADER_LEN
       \/ get_byte(file, file_pos + 9, 4) < HEADER_LEN
       \/ Len(file) - file_pos < get_byte(file, file_pos + 9, 4)
    THEN [raw |-> <<>>, file_pos |-> file_pos]
    ELSE [raw |-> SubSeq(file, file_pos + 1, file_pos + get_byte(file, file_pos + 9, 4)),
          file_pos |-> file_pos + get_byte(file, file_pos + 9, 4)]

\* a checkpoint event without header fields or checksum
create_binlog_checkpoint_blank(file_name, server_id, next_pos) ==
    Put(Zeroes(HEADER_LEN + 4 + Len(file_name) + 4), 4, <<BINLOG_CHECKPOINT_EVENT>>)

\* a parse that takes the server id for the event length and the other way
init_swapped(raw, trailer) ==
    [m_timestamp      |-> get_byte(raw, 0, 4),
     m_event_type     |-> raw[4 + 1],
     m_server_id      |-> get_byte(raw, 9, 4),
     m_event_length   |-> get_byte(raw, 5, 4),
     m_next_event_pos |-> get_byte(raw, 13, 4),
     m_flags          |-> get_byte(raw, 17, 2),
     m_checksum       |-> get_byte(raw, trailer, 4)]

\* a change of the position that leaves the old checksum in place
set_next_pos_stale(raw, next_pos) ==
    [m_checksum |-> get_byte(raw, Len(raw) - 4, 4),
     m_raw |-> Put(raw, 13, set_byte(next_pos, 4))]

\* get_rotate_name: the bytes after the header and the 8-byte position, up to
\* the checksum
get_rotate_name(raw) == SubSeq(raw, HEADER_LEN + 8 + 1, Len(raw) - 4)

\* RplEvent::rotate
rotate(ev) ==
    [is_fake      |-> ev.m_timestamp = 0,
     is_artifical |-> BitAnd(ev.m_flags, LOG_EVENT_ARTIFICIAL_F) # 0,
     file_name    |-> get_rotate_name(ev.m_raw)]

\* RplEvent::gtid_event on the bytes of the body, which pBody() points to:
\* sequence number, domain id, flags, and the commit id if the flags say so
gtid_event_of_raw(ev) ==
    LET dptr  == HEADER_LEN
        flags == ev.m_raw[dptr + 8 + 4 + 1]
    IN  [gtid      |-> Gtid(get_byte(ev.m_raw, dptr + 8, 4), 0,
                            get_byte(ev.m_raw, dptr, 8)),
         flags     |-> flags,
         commit_id |-> IF BitAnd(flags, FL_GROUP_COMMIT_ID) # 0
                       THEN get_byte(ev.m_raw, dptr + 8 + 4 + 1, 8)
                       ELSE 0]

\* a GTID_EVENT as a server sends it: header, sequence number, domain id,
\* flags, then tail (the commit id, or padding) and the checksum
GtidEventBuffer(server_id, sequence_nr, domain_id, flags, tail) ==
    LET size == HEADER_LEN + 8 + 4 + 1 + Len(tail) + 4
        d1 == Put(Zeroes(size), 0, set_byte(1, 4))
        d2 == Put(d1, 4, <<GTID_EVENT>>)
        d3 == Put(d2, 5, set_byte(server_id, 4))
        d4 == Put(d3, 9, set_byte(size, 4))
        d5 == Put(d4, 13, set_byte(1000, 4))
        d6 == Put(d5, HEADER_LEN, set_byte(sequence_nr, 8))
        d7 == Put(d6, HEADER_LEN + 8, set_byte(domain_id, 4))
        d8 == Put(d7, HEADER_LEN + 12, <<flags>> \o tail)
    IN  Put(d8, size - 4, set_byte(crc32(SubSeq(d8, 1, size - 4)), 4))

\* offsets in query_event_sql
DBNM_OFF == 8
VBLK_OFF == 4 + 4 + 1 + 2
PHDR_OFF == 4 + 4 + 1 + 2 + 2
BINLOG_HEADER_LEN == 19

\* RplEvent::query_event_sql: the results the call can come to.  ptr is
\* m_raw.data(), the start of the buffer.  A negative len becomes a size_t
\* above max_size() and std::string::assign throws std::length_error; a
\* pointer or a range outside the buffer is undefined.
query_event_sql(ev) ==
    IF ev.m_event_type # QUERY_EVENT
    THEN {[outcome |-> "text", sql |-> <<>>]}
    ELSE LET ptr     == ev.m_raw
             dblen   == ptr[DBNM_OFF + 1]
             vblklen == get_byte(ptr, VBLK_OFF, 2)
             start   == PHDR_OFF + vblklen + 1 + dblen
             len     == ev.m_event_length - BINLOG_HEADER_LEN - start
         IN  IF len < 0
             THEN IF start <= Len(ptr)
                  THEN {[outcome |-> "length_error", sql |-> <<>>]}
                  ELSE {[outcome |-> o, sql |-> <<>>] :
                           o \in {"length_error", "crashed"}}
             ELSE IF start + len <= Len(ptr)
                  THEN {[outcome |-> "text", sql |-> SubSeq(ptr, start + 1, start + len)]}
                  ELSE {[outcome |-> "crashed", sql |-> <<>>],
                        [outcome |-> "undefined", sql |-> <<>>]}

\* a QUERY_EVENT as a server sends it: header, post-header (thread id, run
\* time, length of the db name, error code, length of the status variables),
\* status variables, db name, a null byte, the SQL text and the checksum;
\* understated: the length field of the header says less than the header and
\* post-header take
QueryEventBuffer(server_id, vblk, db, sql, understated) ==
    LET size == HEADER_LEN + PHDR_OFF + Len(vblk) + Len(db) + 1 + Len(sql) + 4
        d1 == Put(Zeroes(size), 0, set_byte(1, 4))
        d2 == Put(d1, 4, <<QUERY_EVENT>>)
        d3 == Put(d2, 5, set_byte(server_id, 4))
        d4 == Put(d3, 9, set_byte(IF understated THEN HEADER_LEN + 1 ELSE size, 4))
        d5 == Put(d4, 13, set_byte(1000, 4))
        d6 == Put(d5, HEADER_LEN, set_byte(5, 4))
        d7 == Put(d6, HEADER_LEN + DBNM_OFF, <<Len(db)>>)
        d8 == Put(d7, HEADER_LEN + VBLK_OFF, set_byte(Len(vblk), 2))
        d9 == Put(d8, HEADER_LEN + PHDR_OFF, vblk \o db \o <<0>> \o sql)
    IN  Put(d9, size - 4, set_byte(crc32(SubSeq(d9, 1, size - 4)), 4))

\* create_rotate_event; artificial stands for kind == Kind::Artificial
create_rotate_event(file_name, server_id, pos, artificial) ==
    LET size == HEADER_LEN + Len(file_name) + 12
        d1 == Put(Zeroes(size), 0, set_byte(0, 4))
        d2 == Put(d1, 4, <<ROTATE_EVENT>>)
        d3 == Put(d2, 5, set_byte(server_id, 4))
        d4 == Put(d3, 9, set_byte(size, 4))
        d5 == Put(d4, 13, set_byte(pos, 4))
        d6 == Put(d5, 17, set_byte(IF artificial THEN LOG_EVENT_ARTIFICIAL_F ELSE 0, 2))
        d7 == Put(d6, 19, set_byte(4, 8))
        d8 == Put(d7, 27, file_name)
    IN  Put(d8, 27 + Len(file_name), set_byte(crc32(SubSeq(d8, 1, size - 4)), 4))

\* create_binlog_checkpoint
create_binlog_checkpoint(file_name, server_id, next_pos) ==
    LET size == HEADER_LEN + 4 + Len(file_name) + 4
        d1 == Put(Zeroes(size), 0, set_byte(-1, 4))
        d2 == Put(d1, 4, <<BINLOG_CHECKPOINT_EVENT>>)
        d3 == Put(d2, 5, set_byte(server_id, 4))
        d4 == Put(d3, 9, set_byte(size, 4))
        d5 == Put(d4, 13, set_byte(next_pos, 4))
        d6 == Put(d5, 17, set_byte(0, 2))
        d7 == Put(d6, 19, set_byte(Len(file_name), 4))
        d8 == Put(d7, 23, file_name)
    IN  Put(d8, 23 + Len(file_name), set_byte(crc32(SubSeq(d8, 1, size - 4)), 4))

\* RplEvent::init on a buffer of which every byte read exists; trailer is
\* the offset of the checksum, m_raw.size() - 4
init(raw, trailer) ==
    [m_timestamp      |-> get_byte(raw, 0, 4),
     m_event_type     |-> raw[4 + 1],
     m_server_id      |-> get_byte(raw, 5, 4),
     m_event_length   |-> get_byte(raw, 9, 4),
     m_next_event_pos |-> get_byte(raw, 13, 4),
     m_flags          |-> get_byte(raw, 17, 2),
     m_checksum       |-> get_byte(raw, trailer, 4)]

\* RplEvent::recalculate_crc on a buffer of at least four bytes: the checksum
\* and the buffer with the checksum in its last four bytes
recalculate_crc(raw) ==
    LET crc == crc32(SubSeq(raw, 1, Len(raw) - 4))
    IN  [m_checksum |-> crc, m_raw |-> Put(raw, Len(raw) - 4, set_byte(crc, 4))]

\* RplEvent::set_next_pos on a buffer that holds offsets 13..16 and at least
\* four bytes: the position is written, then the checksum recalculated
set_next_pos(raw, next_pos) == recalculate_crc(Put(raw, 4 + 1 + 4 + 4, set_byte(next_pos, 4)))

\* RplEvent::get_event_length: the length field of a header
get_event_length(header) == get_byte(header, 4 + 1 + 4, 4)

\* read_event: the buffer of the event returned and *file_pos after the call.
\* failure: "none", or a read error in "header" or "body".  A read that finds
\* fewer bytes than asked for sets eof; a length below HEADER_LEN asks for a
\* negative count, which the stream answers by eof too.
read_event(file, file_pos, failure) ==
    IF failure = "header" \/ Len(file) - file_pos < HEADER_LEN
    THEN [raw |-> <<>>, file_pos |-> file_pos]
    ELSE LET header       == SubSeq(file, file_pos + 1, file_pos + HEADER_LEN)
             event_length == get_event_length(header)
         IN  IF failure = "body" \/ event_length < HEADER_LEN
                \/ Len(file) - file_pos < event_length
             THEN [raw |-> <<>>, file_pos |-> file_pos]
             ELSE LET raw == SubSeq(file, file_pos + 1, file_pos + event_length)
                  IN  [raw |-> raw,
                       file_pos |-> init(raw, Len(raw) - 4).m_next_event_pos]

(***************************************************************************)
(* Replication events, by the fields the writer reads.                     *)
(***************************************************************************)
GtidEv(srv, d, seq, flags) ==
    [type |-> "GTID_EVENT", server_id |-> srv, domain_id |-> d,
     sequence_nr |-> seq, flags |-> flags, commit |-> FALSE]
QueryEv(srv, commit) ==
    [type |-> "QUERY_EVENT", server_id |-> srv, domain_id |-> 0,
     sequence_nr |-> 0, flags |-> {}, commit |-> commit]
PlainEv(type, srv) ==
    [type |-> type, server_id |-> srv, domain_id |-> 0,
     sequence_nr |-> 0, flags |-> {}, commit |-> FALSE]
NoEvent == PlainEv("NONE", 0)

\* what conn.get_rpl_msg() can deliver
Events ==
    {GtidEv(srv, g[1], g[2], fl) : srv \in ServerIds, g \in EventGtids,
                                   fl \in {{}, {"F_STANDALONE"}}}
    \cup {QueryEv(srv, c) : srv \in ServerIds, c \in BOOLEAN}
    \cup {PlainEv(t, srv) : t \in {"XID_EVENT", "HEARTBEAT_LOG_EVENT", "ROTATE_EVENT"},
                             srv \in ServerIds}

\* RplEvent::gtid_event: the gtid and the flags of a GTID event
gtid_event(ev) ==
    [gtid |-> Gtid(ev.domain_id, 0, ev.sequence_nr), flags |-> ev.flags]

\* lists the operator can configure as the bootstrap list
BootChoices ==
    {<<>>} \cup {<<Gtid(0, srv, seq)>> : srv \in ServerIds, seq \in {0, 2}}


(***************************************************************************)
(* State.                                                                  *)
(***************************************************************************)
VARIABLES
    m_running,            \* Writer::m_running
    m_current_gtid_list,  \* Writer::m_current_gtid_list
    m_commit_on_query,    \* Writer::m_commit_on_query
    m_lock,               \* owner of Writer::m_lock: "none", "writer", "reader"
    woken,                \* m_cond: a notify_one reached the blocked thread
    pc,                   \* position of the background thread in Writer::run
    rpl_event,            \* the event the streaming loop holds
    new_gtid_list,        \* the bootstrap list as the writer last read it
    elapsed,              \* ticks since the back-off wait began
    gtid_file,            \* text of the checkpoint file (gtid_file_path)
    rpl_state_empty,      \* m_inventory.rpl_state().empty()
    in_txn,               \* FileWriter: a transaction is open
    requested,            \* gtids of the start_replication request of the connection
    call,                 \* m_worker->call: "idle", "posted", "done"
    reader_pc,            \* a thread in get_gtid_io_pos: "idle", "copying"
    dtor_pc,              \* ~Writer: "alive", "flag", "join", "joined"
    dtor_thread,          \* the thread that runs ~Writer: "none", "worker", "other"
    hist,                 \* observations of the run the properties speak about
    event,                \* an RplEvent object: m_raw and the fields init caches
    event_hist,           \* how the RplEvent came about and what was done to it
    m_trx_state,          \* CsMonitorServer::m_trx_state of every server
    cs_hist               \* the last CsMonitorServer operation and what it did

writerVars == <<m_current_gtid_list, m_commit_on_query, new_gtid_list, rpl_event>>
syncVars == <<m_lock, woken, elapsed>>
storeVars == <<gtid_file, rpl_state_empty, in_txn>>
connVars == <<requested, call>>
envVars == <<m_running, reader_pc, dtor_pc, dtor_thread>>

eventVars == <<event, event_hist>>
csVars == <<m_trx_state, cs_hist>>

vars == <<writerVars, syncVars, storeVars, connVars, envVars, pc, hist, eventVars, csVars>>

\* Config::boot_strap_gtid_list: the bootstrap list, read from the persisted file
boot_strap_gtid_list == from_string(gtid_file)

\* positions of the thread inside m_cond.wait_for
WaitPcs == {"wait_lock", "wait_pred", "wait_enter", "blocked"}
\* positions of the thread between the top of the loop and start_replication
ConnectingPcs == {"details", "details_wait", "connect", "start_repl"}
\* positions of the thread inside the streaming loop
StreamingPcs ==
    {"inner", "get_msg", "add_event", "classify", "upd_lock", "upd_write", "save_write"}

\* observations of the streaming session
NoSession ==
    [shape     |-> "none",   \* form of the event sequence since the last GTID event
     writes    |-> 0,        \* checkpoint writes since the last GTID event
     txn_gtid  |-> <<>>,     \* gtid decoded from the last GTID event
     after_sa  |-> FALSE,    \* the last GTID event followed a complete standalone pair
     saved     |-> FALSE,    \* the last event processed wrote the checkpoint file
     appends   |-> 0]        \* calls of add_event that stored the event in hand

\* observations of the last failure
NoFailure ==
    [failure   |-> "none",   \* what the last failure was
     handled   |-> "none",   \* branch the failure handler took: "same", "adopted"
     backoff   |-> "none",   \* how the wait after the last failure ended
     failed_list |-> <<>>,   \* m_current_gtid_list at the moment of the last failure
     advanced  |-> FALSE,    \* a GTID event changed the list in the failed session
     op_changed |-> FALSE]   \* the operator changed the bootstrap list after the failure

\* late_pulls: events pulled from the connection while m_running was false
\* adopted_last: the last failure handler adopted the bootstrap list, and
\* since then no GTID event was processed and the operator changed nothing
NoHist == [s |-> NoSession, f |-> NoFailure, advancing |-> FALSE, late_pulls |-> 0,
           adopted_last |-> FALSE]

\* the members of an RplEvent that init has not set
NoFields ==
    [m_timestamp |-> 0, m_event_type |-> 0, m_server_id |-> 0, m_event_length |-> 0,
     m_next_event_pos |-> 0, m_flags |-> 0, m_checksum |-> 0]

\* an RplEvent with buffer raw and cached fields; outcome tells what the last
\* operation on it came to: "empty", "parsed", "crashed", "undefined"
RplEvent(raw, fields, outcome) == fields @@ [m_raw |-> raw, outcome |-> outcome]

\* RplEvent(): no buffer
EmptyEvent == RplEvent(<<>>, NoFields, "empty")

\* no decoder was called
NoResult == [outcome |-> "none"]

\* nothing was built or done yet
NoEventHist ==
    [by         |-> "none",  \* "rotate", "checkpoint": synthesized; "buffer": given
     file_name  |-> <<>>,    \* arguments of the synthesis
     server_id  |-> 0,
     pos        |-> 0,
     artificial |-> FALSE,
     input      |-> <<>>,    \* the buffer handed to the constructor
     op         |-> "none",  \* last operation: "new", "set_next_pos", "recalculate_crc"
     arg        |-> 0,       \* argument of set_next_pos
     before     |-> <<>>,    \* m_raw before the last operation
     sql        |-> <<>>,    \* SQL text of a query event handed in
     body       |-> NoResult,  \* what a GTID event was built from; how a read went
     result     |-> NoResult]  \* what rotate or query_event_sql returned

\* CsMonitorServer::TrxState
TRX_INACTIVE == "TRX_INACTIVE"
TRX_ACTIVE == "TRX_ACTIVE"

\* every server as constructed: no transaction
NoTransactions == [s \in CsServers |-> TRX_INACTIVE]

\* no function of CsMonitorServer was called yet
NoCsHist ==
    [op         |-> "none",  \* the function that returned last
     servers    |-> {},      \* the servers it was called for
     warned     |-> FALSE,   \* it found the transaction state it warns about
     ok_servers |-> {},      \* servers whose HTTP result was ok
     statuses   |-> <<>>,    \* set_mode: the Status fetched from every server
     mode_calls |-> {},      \* servers the mode change was sent to
     mode_ok    |-> FALSE,   \* set_mode: the mode change's HTTP result was ok
     rv         |-> FALSE]   \* set_mode: the value returned

Init ==
    /\ event = EmptyEvent
    /\ event_hist = NoEventHist
    /\ m_trx_state = NoTransactions
    /\ cs_hist = NoCsHist
    /\ m_running = TRUE
    /\ gtid_file \in {to_string(l) : l \in BootChoices}
    /\ m_current_gtid_list = from_string(gtid_file)
    /\ new_gtid_list = from_string(gtid_file)
    /\ m_commit_on_query = FALSE
    /\ m_lock = "none"
    /\ woken = FALSE
    /\ pc = "loop"
    /\ rpl_event = NoEvent
    /\ elapsed = 0
    /\ rpl_state_empty \in BOOLEAN
    /\ in_txn = FALSE
    /\ requested = <<>>
    /\ call = "idle"
    /\ reader_pc = "idle"
    /\ dtor_pc = "alive"
    /\ dtor_thread = "none"
    /\ hist = NoHist

(***************************************************************************)
(* Faulty variants of the helpers below.  A property that is to tell the   *)
(* code from a variant must fail when the variant takes the helper's place.*)
(***************************************************************************)
\* a request that never steps back
StartGtidsAsIs(list, rpl_empty) == list

\* a request that steps back by an unsigned subtraction, which wraps at 0
StartGtidsWrapping(list, rpl_empty) ==
    IF rpl_empty /\ Len(list) > 0
    THEN [i \in 1..Len(list) |->
            [list[i] EXCEPT !.sequence_nr = (list[i].sequence_nr - 1) % SeqModulus]]
    ELSE list

\* a handler that always finds the lists equal
AlwaysSame(new_list, current) == TRUE

\* a handler that keeps the current list
KeptList(new_list, current) == current

\* loops that never look at the flag
NeverStop(running) == TRUE

\* a wait that returns at the first wake-up
WakeResultAtOnce(ticks) == "timeout"

\* a wait whose timeout never ends it
WakeResultNever(ticks) == "again"

\* a gtid that is added to the list, whatever its domain
AppendGtid(list, gtid) == Append(list, gtid)

\* a checkpoint that holds the first gtid of the list only
CheckpointTextFirst(list) == to_string(SubSeq(list, 1, 1))

\* a checkpoint written although the commit failed
FileWrittenAnyway(file, list) == to_string(list)

\* a checkpoint written for a list without entries too
ListIsSavedAlways(list) == TRUE

\* a QUERY_EVENT case that ignores m_commit_on_query
QuerySavesOnCommitOnly(commit_on_query, is_commit) == is_commit

\* a handler that takes lists of the same length for equal
SameLength(new_list, current) == Len(new_list) = Len(current)

\* a handler that never finds the lists equal
NeverSame(new_list, current) == FALSE

\* a wait that keeps the mutex while it is blocked
HeldForWait(owner) == owner

\* an add_event that stores nothing
NotAppended(appends) == appends

\* a QUERY_EVENT case that leaves m_commit_on_query as it is
CommitOnQueryKept(commit_on_query) == commit_on_query

(***************************************************************************)
(* Helpers of the background thread.                                       *)
(***************************************************************************)
\* Writer::start_replication: the gtids the request carries
StartGtids(list, rpl_empty) ==
    IF rpl_empty /\ is_valid(list)
    THEN [i \in 1..Len(list) |-> previous(list[i])]
    ELSE list

\* the test of the failure handler: the bootstrap list reads like the current one
SameAsCurrent(new_list, current) == to_string(new_list) = to_string(current)

\* the list the else branch of the failure handler assigns
AdoptedList(new_list, current) == new_list

\* the condition of both while loops of Writer::run
KeepRunning(running) == running

\* the predicate given to m_cond.wait_for
stop_waiting(running) == ~running

\* m_cond.wait_for after a wake-up: "timeout" ends the wait, "again" tests the
\* predicate once more
WakeResult(ticks) == IF ticks >= BackoffTicks THEN "timeout" ELSE "again"

\* Writer::update_gtid_list: the list after the gtid is merged into it
update_gtid_list(list, gtid) == replace(list, gtid)

\* save_gtid_list: the test that guards the commit and the write
ListIsSaved(list) == is_valid(list)

\* save_gtid_list: what ofs << m_current_gtid_list puts in the checkpoint file
CheckpointText(list) == to_string(list)

\* save_gtid_list: the checkpoint file after commit_txn has thrown; the
\* ofstream is not yet constructed
FileAfterFailedCommit(file, list) == file

\* m_cond.wait_for: the owner of the mutex while the thread is blocked
ReleasedForWait(owner) == "none"

\* conn.get_rpl_msg returns: the count of events pulled while the flag was false
LatePulls(n, running) == IF ~running /\ n < MaxLatePulls THEN n + 1 ELSE n

\* file.add_event: the number of times the event in hand is stored
Appended(appends) == appends + 1

\* the QUERY_EVENT case: does it call save_gtid_list
QuerySaves(commit_on_query, is_commit) == commit_on_query \/ is_commit

\* the GTID_EVENT case: m_commit_on_query after the event
CommitOnQueryAfterGtid(commit_on_query, flags) ==
    IF "F_STANDALONE" \in flags THEN TRUE ELSE commit_on_query

\* the QUERY_EVENT case: m_commit_on_query after an event that did not throw
CommitOnQueryAfterQuery(commit_on_query) ==
    IF commit_on_query THEN FALSE ELSE commit_on_query

\* form of the event sequence since the last GTID event, after one more event
ShapeAfter(shape, ev) ==
    CASE ev.type = "GTID_EVENT" ->
            IF "F_STANDALONE" \in ev.flags THEN "sa" ELSE "open"
      [] ev.type = "QUERY_EVENT" ->
            IF shape = "open" THEN (IF ev.commit THEN "closed_commit" ELSE "open")
            ELSE IF shape = "sa" THEN "sa_done" ELSE "none"
      [] ev.type = "XID_EVENT" ->
            IF shape = "open" THEN "closed_xid" ELSE "none"
      [] OTHER -> IF shape \in {"open", "sa"} THEN shape ELSE "none"

\* the observations after the event in hand has been processed; saved tells
\* whether the checkpoint file was written
Processed(ev, saved) ==
    [hist EXCEPT
        !.s = [shape |-> ShapeAfter(hist.s.shape, ev),
               writes |-> IF ev.type = "GTID_EVENT" THEN 0
                          ELSE IF saved /\ hist.s.writes < MaxWrites
                               THEN hist.s.writes + 1 ELSE hist.s.writes,
               txn_gtid |-> IF ev.type = "GTID_EVENT" THEN <<gtid_event(ev).gtid>>
                            ELSE hist.s.txn_gtid,
               after_sa |-> IF ev.type = "GTID_EVENT" THEN hist.s.shape = "sa_done"
                            ELSE hist.s.after_sa,
               saved |-> saved,
               appends |-> hist.s.appends],
        !.advancing =
            IF ev.type = "GTID_EVENT"
            THEN hist.advancing
                 \/ replace(m_current_gtid_list, gtid_event(ev).gtid) # m_current_gtid_list
            ELSE hist.advancing,
        !.adopted_last = IF ev.type = "GTID_EVENT" THEN FALSE ELSE @]

\* an exception leaves the try block: FileWriter and Connection are destroyed
\* and the catch block is entered
Throw(kind) ==
    /\ pc' = "catch"
    /\ in_txn' = FALSE
    /\ requested' = <<>>
    /\ hist' = [s |-> NoSession,
                f |-> [NoFailure EXCEPT !.failure = kind,
                                        !.failed_list = m_current_gtid_list,
                                        !.advanced = hist.advancing],
                advancing |-> FALSE,
                late_pulls |-> hist.late_pulls,
                adopted_last |-> hist.adopted_last]

(***************************************************************************)
(* The background thread: Writer::run.                                     *)
(***************************************************************************)
\* while (m_running), and the FileWriter the try block builds
LoopCheck ==
    /\ pc = "loop"
    /\ pc' = IF KeepRunning(m_running) THEN "details" ELSE "stopped"
    /\ UNCHANGED <<writerVars, syncVars, storeVars, connVars, envVars, hist>>
    /\ UNCHANGED <<eventVars, csVars>>

\* get_connection_details: post the generator to the worker
PostCall ==
    /\ pc = "details"
    /\ call' = "posted"
    /\ pc' = "details_wait"
    /\ UNCHANGED <<writerVars, syncVars, storeVars, requested, envVars, hist>>
    /\ UNCHANGED <<eventVars, csVars>>

\* the worker is free to run a posted task unless it is the thread inside ~Writer
WorkerFree == ~(dtor_thread = "worker" /\ dtor_pc \in {"flag", "join"})

\* the coordination worker runs the generator
WorkerRun ==
    /\ call = "posted"
    /\ WorkerFree
    /\ call' = "done"
    /\ UNCHANGED <<writerVars, syncVars, storeVars, requested, envVars, pc, hist>>
    /\ UNCHANGED <<eventVars, csVars>>

\* get_connection_details returns
CallReturns ==
    /\ pc = "details_wait"
    /\ call = "done"
    /\ call' = "idle"
    /\ pc' = "connect"
    /\ UNCHANGED <<writerVars, syncVars, storeVars, requested, envVars, hist>>
    /\ UNCHANGED <<eventVars, csVars>>

\* mxq::Connection conn(details): connects or throws
Connect ==
    /\ pc = "connect"
    /\ \/ /\ pc' = "start_repl"
          /\ UNCHANGED <<in_txn, requested, hist>>
       \/ Throw("ConnectFailed")
    /\ UNCHANGED <<writerVars, syncVars, gtid_file, rpl_state_empty, call, envVars>>
    /\ UNCHANGED <<eventVars, csVars>>

\* start_replication(conn): sends the request, which succeeds or throws
StartReplication ==
    /\ pc = "start_repl"
    /\ \/ /\ requested' = StartGtids(m_current_gtid_list, rpl_state_empty)
          /\ pc' = "inner"
          /\ hist' = [NoHist EXCEPT !.late_pulls = hist.late_pulls,
                                     !.adopted_last = hist.adopted_last]
          /\ UNCHANGED in_txn
       \/ Throw("ProtocolError")
    /\ UNCHANGED <<writerVars, syncVars, gtid_file, rpl_state_empty, call, envVars>>
    /\ UNCHANGED <<eventVars, csVars>>

\* while (m_running) of the streaming loop; the event of the last turn is gone
InnerCheck ==
    /\ pc = "inner"
    /\ rpl_event' = NoEvent
    /\ IF KeepRunning(m_running)
       THEN pc' = "get_msg" /\ UNCHANGED <<in_txn, requested, hist>>
       ELSE /\ pc' = "loop"
            /\ in_txn' = FALSE
            /\ requested' = <<>>
            /\ hist' = [NoHist EXCEPT !.late_pulls = hist.late_pulls,
                                     !.adopted_last = hist.adopted_last]
    /\ UNCHANGED <<m_current_gtid_list, m_commit_on_query, new_gtid_list, syncVars,
                   gtid_file, rpl_state_empty, call, envVars>>
    /\ UNCHANGED <<eventVars, csVars>>

\* conn.get_rpl_msg(): the next event, or a stream error
GetRplMsg ==
    /\ pc = "get_msg"
    /\ \/ /\ \E ev \in Events : rpl_event' = ev
          /\ pc' = "add_event"
          /\ hist' = [hist EXCEPT !.s.appends = 0,
                                   !.late_pulls = LatePulls(@, m_running)]
          /\ UNCHANGED <<in_txn, requested>>
       \/ /\ Throw("StreamError")
          /\ UNCHANGED rpl_event
    /\ UNCHANGED <<m_current_gtid_list, m_commit_on_query, new_gtid_list, syncVars,
                   gtid_file, rpl_state_empty, call, envVars>>
    /\ UNCHANGED <<eventVars, csVars>>

\* file.add_event(rpl_event): the event is stored, or an I/O error
AddEvent ==
    /\ pc = "add_event"
    /\ \/ /\ rpl_state_empty' = FALSE
          /\ pc' = "classify"
          /\ hist' = [hist EXCEPT !.s.appends = Appended(hist.s.appends)]
          /\ UNCHANGED <<in_txn, requested, rpl_event>>
       \/ /\ Throw("IoError")
          /\ rpl_event' = NoEvent
          /\ UNCHANGED rpl_state_empty
    /\ UNCHANGED <<m_current_gtid_list, m_commit_on_query, new_gtid_list, syncVars,
                   gtid_file, call, envVars>>
    /\ UNCHANGED <<eventVars, csVars>>

\* case GTID_EVENT: file.begin_txn(), then update_gtid_list takes m_lock
ClassifyGtid ==
    /\ pc = "classify"
    /\ rpl_event.type = "GTID_EVENT"
    /\ in_txn' = TRUE
    /\ pc' = "upd_lock"
    /\ UNCHANGED <<writerVars, syncVars, gtid_file, rpl_state_empty, connVars, envVars,
                   hist>>
    /\ UNCHANGED <<eventVars, csVars>>

\* update_gtid_list: std::lock_guard guard(m_lock)
UpdateLock ==
    /\ pc = "upd_lock"
    /\ m_lock = "none"
    /\ m_lock' = "writer"
    /\ pc' = "upd_write"
    /\ UNCHANGED <<writerVars, woken, elapsed, storeVars, connVars, envVars, hist>>
    /\ UNCHANGED <<eventVars, csVars>>

\* update_gtid_list: replace under the lock, unlock; then the standalone flag
UpdateGtidList ==
    /\ pc = "upd_write"
    /\ m_current_gtid_list' =
            update_gtid_list(m_current_gtid_list, gtid_event(rpl_event).gtid)
    /\ m_lock' = "none"
    /\ m_commit_on_query' =
            CommitOnQueryAfterGtid(m_commit_on_query, gtid_event(rpl_event).flags)
    /\ hist' = Processed(rpl_event, FALSE)
    /\ pc' = "inner"
    /\ UNCHANGED <<new_gtid_list, rpl_event, woken, elapsed, storeVars, connVars,
                   envVars>>
    /\ UNCHANGED <<eventVars, csVars>>

\* save_gtid_list with a list that is saved: file_writer.commit_txn() commits
\* the transaction, or throws
SaveGtidList ==
    \/ /\ in_txn' = FALSE
       /\ pc' = "save_write"
       /\ UNCHANGED <<gtid_file, requested, rpl_event, hist>>
    \/ /\ Throw("IoError")
       /\ rpl_event' = NoEvent
       /\ gtid_file' = FileAfterFailedCommit(gtid_file, m_current_gtid_list)

\* a classification that writes the checkpoint for any event
SavedAnyway ==
    /\ pc' = "inner"
    /\ hist' = Processed(rpl_event, TRUE)
    /\ gtid_file' = CheckpointText(m_current_gtid_list)
    /\ UNCHANGED <<in_txn, requested, rpl_event>>

\* the event in hand needs nothing but to be stored
NothingToSave ==
    /\ pc' = "inner"
    /\ hist' = Processed(rpl_event, FALSE)
    /\ UNCHANGED <<in_txn, gtid_file, requested, rpl_event>>

\* case QUERY_EVENT
ClassifyQuery ==
    /\ pc = "classify"
    /\ rpl_event.type = "QUERY_EVENT"
    /\ IF QuerySaves(m_commit_on_query, rpl_event.commit) /\ ListIsSaved(m_current_gtid_list)
       THEN SaveGtidList /\ UNCHANGED m_commit_on_query
       ELSE /\ NothingToSave
            /\ m_commit_on_query' = CommitOnQueryAfterQuery(m_commit_on_query)
    /\ UNCHANGED <<m_current_gtid_list, new_gtid_list, syncVars, rpl_state_empty, call,
                   envVars>>
    /\ UNCHANGED <<eventVars, csVars>>

\* case XID_EVENT
ClassifyXid ==
    /\ pc = "classify"
    /\ rpl_event.type = "XID_EVENT"
    /\ IF ListIsSaved(m_current_gtid_list)
       THEN SaveGtidList
       ELSE NothingToSave
    /\ UNCHANGED <<m_current_gtid_list, m_commit_on_query, new_gtid_list, syncVars,
                   rpl_state_empty, call, envVars>>
    /\ UNCHANGED <<eventVars, csVars>>

\* save_gtid_list after the commit: the checkpoint file is overwritten and
\* flushed; back in the QUERY_EVENT case m_commit_on_query is cleared
WriteCheckpoint ==
    /\ pc = "save_write"
    /\ gtid_file' = CheckpointText(m_current_gtid_list)
    /\ m_commit_on_query' = IF rpl_event.type = "QUERY_EVENT"
                            THEN CommitOnQueryAfterQuery(m_commit_on_query)
                            ELSE m_commit_on_query
    /\ hist' = Processed(rpl_event, TRUE)
    /\ pc' = "inner"
    /\ UNCHANGED <<m_current_gtid_list, new_gtid_list, rpl_event, syncVars,
                   rpl_state_empty, in_txn, connVars, envVars>>
    /\ UNCHANGED <<eventVars, csVars>>

\* default: the event is only stored
ClassifyOther ==
    /\ pc = "classify"
    /\ rpl_event.type \notin {"GTID_EVENT", "QUERY_EVENT", "XID_EVENT"}
    /\ NothingToSave
    /\ UNCHANGED <<m_current_gtid_list, m_commit_on_query, new_gtid_list, syncVars,
                   rpl_state_empty, call, envVars>>
    /\ UNCHANGED <<eventVars, csVars>>

\* catch: read the bootstrap list and compare its text with the current list's
Catch ==
    /\ pc = "catch"
    /\ new_gtid_list' = boot_strap_gtid_list
    /\ IF SameAsCurrent(boot_strap_gtid_list, m_current_gtid_list)
       THEN /\ pc' = "wait_lock"
            /\ hist' = [hist EXCEPT !.f.handled = "same", !.adopted_last = FALSE]
       ELSE /\ pc' = "adopt"
            /\ hist' = [hist EXCEPT !.f.handled = "adopted"]
    /\ UNCHANGED <<m_current_gtid_list, m_commit_on_query, rpl_event, syncVars,
                   storeVars, connVars, envVars>>
    /\ UNCHANGED <<eventVars, csVars>>

\* m_current_gtid_list = new_gtid_list, with no lock taken
Adopt ==
    /\ pc = "adopt"
    /\ m_current_gtid_list' = AdoptedList(new_gtid_list, m_current_gtid_list)
    /\ pc' = "loop"
    /\ hist' = [hist EXCEPT !.adopted_last = TRUE]
    /\ UNCHANGED <<m_commit_on_query, new_gtid_list, rpl_event, syncVars, storeVars,
                   connVars, envVars>>
    /\ UNCHANGED <<eventVars, csVars>>

\* std::unique_lock guard(m_lock) before the wait; the timeout starts to run
WaitLock ==
    /\ pc = "wait_lock"
    /\ m_lock = "none"
    /\ m_lock' = "writer"
    /\ elapsed' = 0
    /\ pc' = "wait_pred"
    /\ UNCHANGED <<writerVars, woken, storeVars, connVars, envVars, hist>>
    /\ UNCHANGED <<eventVars, csVars>>

\* how a return from wait_for is seen from outside: the second was over, the
\* stop was requested, or neither
ReturnSeen == IF elapsed >= BackoffTicks THEN "timeout"
              ELSE IF ~m_running THEN "shutdown" ELSE "early"

\* wait_for tests the predicate while it holds the lock
WaitPred ==
    /\ pc = "wait_pred"
    /\ IF stop_waiting(m_running)
       THEN /\ m_lock' = "none"
            /\ elapsed' = 0
            /\ pc' = "loop"
            /\ hist' = [hist EXCEPT !.f.backoff = ReturnSeen]
       ELSE /\ pc' = "wait_enter"
            /\ UNCHANGED <<m_lock, elapsed, hist>>
    /\ UNCHANGED <<writerVars, woken, storeVars, connVars, envVars>>
    /\ UNCHANGED <<eventVars, csVars>>

\* wait_for releases the lock and blocks on m_cond
WaitBlock ==
    /\ pc = "wait_enter"
    /\ m_lock' = ReleasedForWait(m_lock)
    /\ woken' = FALSE
    /\ pc' = "blocked"
    /\ UNCHANGED <<writerVars, elapsed, storeVars, connVars, envVars, hist>>
    /\ UNCHANGED <<eventVars, csVars>>

\* the blocked thread wakes up, takes the lock again and either returns on
\* timeout or goes back to the predicate
Wake ==
    /\ pc = "blocked"
    /\ m_lock = "none"
    /\ woken' = FALSE
    /\ IF WakeResult(elapsed) = "timeout"
       THEN /\ pc' = "loop"
            /\ elapsed' = 0
            /\ hist' = [hist EXCEPT !.f.backoff = ReturnSeen]
            /\ UNCHANGED m_lock
       ELSE /\ pc' = "wait_pred"
            /\ m_lock' = "writer"
            /\ UNCHANGED <<elapsed, hist>>
    /\ UNCHANGED <<writerVars, storeVars, connVars, envVars>>
    /\ UNCHANGED <<eventVars, csVars>>

\* woken by notify_one
NotifiedWake == woken /\ Wake
\* woken because the second is over
TimeoutWake == ~woken /\ elapsed >= BackoffTicks /\ Wake
\* a spurious wake-up
SpuriousWake == ~woken /\ elapsed < BackoffTicks /\ Wake

\* time passes while the thread is blocked in wait_for
Tick ==
    /\ pc = "blocked"
    /\ elapsed < BackoffTicks
    /\ elapsed' = elapsed + 1
    /\ UNCHANGED <<writerVars, m_lock, woken, storeVars, connVars, envVars, pc, hist>>
    /\ UNCHANGED <<eventVars, csVars>>

(***************************************************************************)
(* Other threads.                                                          *)
(***************************************************************************)
\* get_gtid_io_pos: lock_guard, then the copy of the list begins
ReaderLock ==
    /\ reader_pc = "idle"
    /\ dtor_pc = "alive"
    /\ m_lock = "none"
    /\ m_lock' = "reader"
    /\ reader_pc' = "copying"
    /\ UNCHANGED <<writerVars, woken, elapsed, storeVars, connVars, m_running, dtor_pc,
                   dtor_thread, pc, hist>>
    /\ UNCHANGED <<eventVars, csVars>>

\* get_gtid_io_pos: the copy is done and the guard unlocks
ReaderReturn ==
    /\ reader_pc = "copying"
    /\ m_lock' = "none"
    /\ reader_pc' = "idle"
    /\ UNCHANGED <<writerVars, woken, elapsed, storeVars, connVars, m_running, dtor_pc,
                   dtor_thread, pc, hist>>
    /\ UNCHANGED <<eventVars, csVars>>

\* ~Writer, run by thread t: m_running = false
DtorStopOn(t) ==
    /\ dtor_pc = "alive"
    /\ reader_pc = "idle"
    /\ m_running' = FALSE
    /\ dtor_pc' = "flag"
    /\ dtor_thread' = t
    /\ UNCHANGED <<writerVars, syncVars, storeVars, connVars, reader_pc, pc, hist>>
    /\ UNCHANGED <<eventVars, csVars>>

\* the writer is destroyed on the coordination worker or on another thread
DtorStop == \E t \in {"worker", "other"} : DtorStopOn(t)

\* ~Writer: m_cond.notify_one() wakes the thread if it is blocked on m_cond
DtorNotify ==
    /\ dtor_pc = "flag"
    /\ woken' = IF pc = "blocked" THEN TRUE ELSE woken
    /\ dtor_pc' = "join"
    /\ UNCHANGED <<writerVars, m_lock, elapsed, storeVars, connVars, m_running,
                   reader_pc, dtor_thread, pc, hist>>
    /\ UNCHANGED <<eventVars, csVars>>

\* ~Writer: m_thread.join() returns once run() has returned
DtorJoin ==
    /\ dtor_pc = "join"
    /\ pc = "stopped"
    /\ dtor_pc' = "joined"
    /\ UNCHANGED <<writerVars, syncVars, storeVars, connVars, m_running, reader_pc,
                   dtor_thread, pc, hist>>
    /\ UNCHANGED <<eventVars, csVars>>

\* the operator sets another bootstrap list.  The writer reads the list only
\* in its failure handler, so a change at any time shows as a change here.
SetBootstrap ==
    /\ pc = "catch"
    /\ ~hist.f.op_changed
    /\ \E l \in BootChoices :
          /\ to_string(l) # gtid_file
          /\ gtid_file' = to_string(l)
    /\ hist' = [hist EXCEPT !.f.op_changed = TRUE, !.adopted_last = FALSE]
    /\ UNCHANGED <<writerVars, syncVars, rpl_state_empty, in_txn, connVars, envVars, pc>>
    /\ UNCHANGED <<eventVars, csVars>>

Next ==
    \/ LoopCheck \/ PostCall \/ WorkerRun \/ CallReturns \/ Connect
    \/ StartReplication \/ InnerCheck \/ GetRplMsg \/ AddEvent
    \/ ClassifyGtid \/ UpdateLock \/ UpdateGtidList
    \/ ClassifyQuery \/ ClassifyXid \/ ClassifyOther \/ WriteCheckpoint
    \/ Catch \/ Adopt
    \/ WaitLock \/ WaitPred \/ WaitBlock
    \/ NotifiedWake \/ TimeoutWake \/ SpuriousWake \/ Tick
    \/ ReaderLock \/ ReaderReturn
    \/ DtorStop \/ DtorNotify \/ DtorJoin
    \/ SetBootstrap

Spec == Init /\ [][Next]_vars

(***************************************************************************)
(* The writer destroyed by a thread other than the coordination worker,    *)
(* with the scheduling the code relies on: the background thread, the      *)
(* worker, a reader inside get_gtid_io_pos and the destructor each take    *)
(* their next step when they can, time passes during a timed wait, and a   *)
(* call to the connection or the file writer returns or throws.  A         *)
(* spurious wake-up is allowed and never required.                         *)
(***************************************************************************)
\* the steps of the background thread, the spurious wake-up aside
WriterThread ==
    \/ LoopCheck \/ PostCall \/ CallReturns \/ Connect
    \/ StartReplication \/ InnerCheck \/ GetRplMsg \/ AddEvent
    \/ ClassifyGtid \/ UpdateLock \/ UpdateGtidList
    \/ ClassifyQuery \/ ClassifyXid \/ ClassifyOther \/ WriteCheckpoint
    \/ Catch \/ Adopt
    \/ WaitLock \/ WaitPred \/ WaitBlock
    \/ NotifiedWake \/ TimeoutWake

NextOffWorker ==
    \/ WriterThread \/ SpuriousWake \/ Tick
    \/ WorkerRun
    \/ ReaderLock \/ ReaderReturn
    \/ DtorStopOn("other") \/ DtorNotify \/ DtorJoin
    \/ SetBootstrap

Fairness ==
    /\ WF_vars(WriterThread)
    /\ WF_vars(Tick)
    /\ WF_vars(WorkerRun)
    /\ WF_vars(ReaderReturn)
    /\ WF_vars(DtorNotify)
    /\ WF_vars(DtorJoin)

SpecLive == Init /\ [][NextOffWorker]_vars /\ Fairness

(***************************************************************************)
(* The writer with a mutex that does not starve the background thread: a   *)
(* reader holds m_lock only for the copy of the list, and a thread that    *)
(* waits for the mutex gets it when it is released again and again.  Time  *)
(* passes however often the waiting thread wakes up spuriously.            *)
(***************************************************************************)
\* the steps in which the background thread takes m_lock
LockSteps == UpdateLock \/ WaitLock \/ NotifiedWake \/ TimeoutWake

LockFairness ==
    /\ WF_vars(WriterThread)
    /\ WF_vars(WorkerRun)
    /\ WF_vars(ReaderReturn)
    /\ SF_vars(Tick)
    /\ SF_vars(LockSteps)

SpecFair == Init /\ [][Next]_vars /\ LockFairness


(***************************************************************************)
(* RplEvent objects: an event buffer is synthesized or handed in, an       *)
(* RplEvent is constructed from it, and one operation is applied.  The     *)
(* writer stays as constructed.                                            *)
(***************************************************************************)
\* the writer before its thread has taken a step
WriterAtRest ==
    /\ m_running = TRUE
    /\ gtid_file = <<>>
    /\ m_current_gtid_list = <<>>
    /\ new_gtid_list = <<>>
    /\ m_commit_on_query = FALSE
    /\ m_lock = "none"
    /\ woken = FALSE
    /\ pc = "loop"
    /\ rpl_event = NoEvent
    /\ elapsed = 0
    /\ rpl_state_empty = TRUE
    /\ in_txn = FALSE
    /\ requested = <<>>
    /\ call = "idle"
    /\ reader_pc = "idle"
    /\ dtor_pc = "alive"
    /\ dtor_thread = "none"
    /\ hist = NoHist

writerState == <<writerVars, syncVars, storeVars, connVars, envVars, pc, hist>>

InitEvent ==
    /\ WriterAtRest
    /\ event = EmptyEvent
    /\ event_hist = NoEventHist
    /\ m_trx_state = NoTransactions
    /\ cs_hist = NoCsHist

\* buffers that reach the constructor from a stream or a file: a rotate event
\* cut off after any number of bytes
Buffers ==
    LET whole == create_rotate_event(<<98>>, 1, 4, FALSE)
    IN  {SubSeq(whole, 1, n) : n \in 0..Len(whole)}

\* rotate events with other timestamps and flags than create_rotate_event
\* sets, checksum recomputed
HeaderVariants ==
    LET whole == create_rotate_event(<<98>>, 1, 4, FALSE)
    IN  {recalculate_crc(Put(Put(whole, 0, ts), 17, fl)).m_raw :
            ts \in {<<0, 0, 0, 0>>, <<1, 0, 0, 0>>, <<0, 0, 0, 1>>},
            fl \in {<<0, 0>>, <<LOG_EVENT_ARTIFICIAL_F, 0>>, <<1, 0>>,
                    <<LOG_EVENT_ARTIFICIAL_F + 1, 0>>, <<0, 1>>,
                    <<LOG_EVENT_ARTIFICIAL_F, 1>>}}

\* server ids of query events: one byte, and one with the highest byte set
QueryServerIds == {1, 150 * ByteMod * ByteMod * ByteMod}
\* status variables, db names and SQL texts of query events
QueryVarBlocks == {<<>>, <<7>>}
QueryDbNames == {<<>>, <<100>>}
QuerySqlTexts == {<<>>, <<66, 69>>}

\* sequence numbers, domain ids and flags of GTID events
GtidSequences == {5, ByteMod + 1}
GtidDomains == {0, 7}
GtidFlags == {0, FL_STANDALONE, FL_GROUP_COMMIT_ID, FL_STANDALONE + FL_GROUP_COMMIT_ID}
\* what follows the flags: a commit id if the flags announce one, else padding
GtidTails(flags) ==
    IF BitAnd(flags, FL_GROUP_COMMIT_ID) # 0
    THEN {set_byte(9, 8), set_byte(ByteMod + 2, 8)}
    ELSE {Zeroes(6), <<9, 9, 9, 9, 9, 9>>}

\* binlog files: two events one after the other, cut off at some length; an
\* event whose next position is not its end; a header that claims 5 bytes;
\* an event that is a header and nothing else
Files ==
    LET e1 == create_rotate_event(<<98>>, 1, 32, FALSE)
        e2 == create_binlog_checkpoint(<<98>>, 1, 60)
        whole == e1 \o e2
        bare == Put(SubSeq(e1, 1, HEADER_LEN), 9, set_byte(HEADER_LEN, 4))
    IN  {SubSeq(whole, 1, n) : n \in {0, 10, 19, 25, 32, 40, 51, 59, 60}}
        \cup {create_rotate_event(<<98>>, 1, 1000, TRUE), Put(e1, 9, set_byte(5, 4)), bare}
\* positions a read starts at
FilePositions == {0, 32}

\* bytes that lie behind the end of a buffer
Garbage == {0, ByteMod - 1}

\* create_rotate_event builds a buffer
MakeRotate ==
    /\ event_hist.by = "none"
    /\ \E name \in FileNames, srv \in EventServerIds, p \in EventPositions,
          art \in BOOLEAN :
          event_hist' = [NoEventHist EXCEPT
                            !.by = "rotate", !.file_name = name, !.server_id = srv,
                            !.pos = p, !.artificial = art,
                            !.input = create_rotate_event(name, srv, p, art)]
    /\ UNCHANGED <<event, writerState, csVars>>

\* create_binlog_checkpoint builds a buffer
MakeCheckpoint ==
    /\ event_hist.by = "none"
    /\ \E name \in FileNames, srv \in EventServerIds, p \in EventPositions :
          event_hist' = [NoEventHist EXCEPT
                            !.by = "checkpoint", !.file_name = name, !.server_id = srv,
                            !.pos = p,
                            !.input = create_binlog_checkpoint(name, srv, p)]
    /\ UNCHANGED <<event, writerState, csVars>>

\* a buffer comes from elsewhere
TakeBuffer ==
    /\ event_hist.by = "none"
    /\ \E raw \in Buffers :
          event_hist' = [NoEventHist EXCEPT !.by = "buffer", !.input = raw]
    /\ UNCHANGED <<event, writerState, csVars>>

\* a rotate event from a stream, with any timestamp and flags
TakeRotate ==
    /\ event_hist.by = "none"
    /\ \E raw \in HeaderVariants :
          event_hist' = [NoEventHist EXCEPT !.by = "rotate_buffer", !.input = raw]
    /\ UNCHANGED <<event, writerState, csVars>>

\* a query event from a stream, whole or with an understated length field
TakeQuery ==
    /\ event_hist.by = "none"
    /\ \E srv \in QueryServerIds, vblk \in QueryVarBlocks, db \in QueryDbNames,
          text \in QuerySqlTexts, understated \in BOOLEAN :
          event_hist' = [NoEventHist EXCEPT
                            !.by = IF understated THEN "query_short" ELSE "query",
                            !.server_id = srv, !.sql = text,
                            !.input = QueryEventBuffer(srv, vblk, db, text, understated)]
    /\ UNCHANGED <<event, writerState, csVars>>

\* a GTID event from a stream
TakeGtid ==
    /\ event_hist.by = "none"
    /\ \E srv \in EventServerIds, seq \in GtidSequences, d \in GtidDomains,
          fl \in GtidFlags :
          \E tail \in GtidTails(fl) :
             event_hist' = [NoEventHist EXCEPT
                               !.by = "gtid", !.server_id = srv,
                               !.body = [sequence_nr |-> seq, domain_id |-> d,
                                         flags |-> fl, tail |-> tail],
                               !.input = GtidEventBuffer(srv, seq, d, fl, tail)]
    /\ UNCHANGED <<event, writerState, csVars>>

\* read_event(file, &file_pos): the event read, or an empty one
ReadEvent ==
    /\ event_hist.by = "none"
    /\ \E file \in Files, file_pos \in FilePositions,
          failure \in {"none", "header", "body"} :
          LET r == read_event(file, file_pos, failure)
          IN  /\ event' = IF r.raw = <<>> THEN EmptyEvent
                          ELSE RplEvent(r.raw, init(r.raw, Len(r.raw) - 4), "parsed")
              /\ event_hist' = [NoEventHist EXCEPT
                                   !.by = "file", !.input = file, !.arg = file_pos,
                                   !.body = [failure |-> failure],
                                   !.op = "read_event",
                                   !.result = [file_pos |-> r.file_pos]]
    /\ UNCHANGED <<writerState, csVars>>

\* RplEvent::RplEvent(std::vector<char>&&): an empty buffer gives an empty
\* event; otherwise init parses, and of a buffer shorter than the header it
\* reads bytes behind the buffer
Construct ==
    /\ event_hist.by # "none"
    /\ event_hist.op = "none"
    /\ LET raw == event_hist.input
       IN  IF raw = <<>>
           THEN event' = EmptyEvent
           ELSE IF Len(raw) >= HEADER_LEN
           THEN event' = RplEvent(raw, init(raw, Len(raw) - 4), "parsed")
           ELSE \E g \in Garbage, out \in {"parsed", "crashed"} :
                   LET read == raw \o [i \in 1..(HEADER_LEN + 4 - Len(raw)) |-> g]
                       trailer == IF Len(raw) >= 4 THEN Len(raw) - 4 ELSE HEADER_LEN
                   IN  event' = RplEvent(raw, init(read, trailer), out)
    /\ event_hist' = [event_hist EXCEPT !.op = "new"]
    /\ UNCHANGED <<writerState, csVars>>

\* RplEvent::set_next_pos; on a buffer without the offsets 13..16 it writes
\* outside the buffer
SetNextPos ==
    /\ event_hist.op = "new"
    /\ event.outcome \in {"parsed", "empty"}
    /\ \E p \in EventPositions :
          /\ IF Len(event.m_raw) >= 4 + 1 + 4 + 4 + 4
             THEN LET r == set_next_pos(event.m_raw, p)
                  IN  event' = [event EXCEPT !.m_next_event_pos = p,
                                             !.m_checksum = r.m_checksum,
                                             !.m_raw = r.m_raw]
             ELSE \E out \in {"crashed", "undefined"} :
                     event' = [event EXCEPT !.m_next_event_pos = p, !.outcome = out]
          /\ event_hist' = [event_hist EXCEPT !.op = "set_next_pos", !.arg = p,
                                              !.before = event.m_raw]
    /\ UNCHANGED <<writerState, csVars>>

\* RplEvent::recalculate_crc; on a buffer of less than four bytes it reads and
\* writes outside the buffer
RecalculateCrc ==
    /\ event_hist.op = "new"
    /\ event.outcome \in {"parsed", "empty"}
    /\ IF Len(event.m_raw) >= 4
       THEN LET r == recalculate_crc(event.m_raw)
            IN  event' = [event EXCEPT !.m_checksum = r.m_checksum, !.m_raw = r.m_raw]
       ELSE \E out \in {"crashed", "undefined"} :
               event' = [event EXCEPT !.outcome = out]
    /\ event_hist' = [event_hist EXCEPT !.op = "recalculate_crc",
                                        !.before = event.m_raw]
    /\ UNCHANGED <<writerState, csVars>>

\* rotate() is called on an event that holds a header, the 8-byte position
\* and a checksum
CallRotate ==
    /\ event_hist.op = "new"
    /\ event.outcome = "parsed"
    /\ Len(event.m_raw) >= HEADER_LEN + 8 + 4
    /\ event_hist' = [event_hist EXCEPT !.op = "rotate", !.result = rotate(event)]
    /\ UNCHANGED <<event, writerState, csVars>>

\* gtid_event() is called on a GTID event
CallGtidEvent ==
    /\ event_hist.op = "new"
    /\ event_hist.by = "gtid"
    /\ event.outcome = "parsed"
    /\ event_hist' = [event_hist EXCEPT !.op = "gtid_event",
                                        !.result = gtid_event_of_raw(event)]
    /\ UNCHANGED <<event, writerState, csVars>>

\* query_event_sql() is called on an event that holds a header
CallQueryEventSql ==
    /\ event_hist.op = "new"
    /\ event.outcome = "parsed"
    /\ Len(event.m_raw) >= HEADER_LEN
    /\ \E r \in query_event_sql(event) :
          event_hist' = [event_hist EXCEPT !.op = "query_event_sql", !.result = r]
    /\ UNCHANGED <<event, writerState, csVars>>

\* the RplEvent goes out of scope
Release ==
    /\ event_hist.op # "none"
    /\ event' = EmptyEvent
    /\ event_hist' = NoEventHist
    /\ UNCHANGED <<writerState, csVars>>

NextEvent ==
    \/ MakeRotate \/ MakeCheckpoint \/ TakeBuffer \/ TakeRotate \/ TakeQuery
    \/ TakeGtid \/ ReadEvent
    \/ Construct \/ SetNextPos \/ RecalculateCrc
    \/ CallRotate \/ CallQueryEventSql \/ CallGtidEvent \/ Release

SpecEvent == InitEvent /\ [][NextEvent]_vars

(***************************************************************************)
(* CsMonitorServer: the transaction state of every server and the          *)
(* functions that begin, commit and roll back a transaction or change the  *)
(* cluster mode, for one server or for several.  The HTTP results come     *)
(* from the servers and are any of the possible ones.                      *)
(***************************************************************************)
\* what a server answers: whether the HTTP result is ok, and the body
HttpBodies == {"unparsable", "no_keys", "master", "slave"}
HttpResults == [ok : BOOLEAN, body : HttpBodies]

\* CsMonitorServer::Status::create
Status_create(response) ==
    [response_ok |-> response.ok,
     sJson       |-> response.body # "unparsable",
     dbrm_mode   |-> IF response.body = "master" THEN "MASTER" ELSE "SLAVE"]

\* CsMonitorServer::Status::ok
Status_ok(status) == status.response_ok /\ status.sJson

\* CsMonitorServer::fetch_statuses
fetch_statuses(servers, results) ==
    [first  |-> Cardinality({s \in servers :
                    results[s].ok /\ Status_create(results[s]).sJson}),
     second |-> [s \in servers |-> Status_create(results[s])]]

\* the largest number of a set of servers: the one a loop over them meets last
LastOf(servers) == CHOOSE s \in servers : \A t \in servers : t <= s

\* a faulty variant: with several masters the last one found gets the change
set_mode_target_last_master(servers, statuses) ==
    LET masters == {s \in servers :
                       Status_ok(statuses[s]) /\ statuses[s].dbrm_mode = "MASTER"}
    IN  IF masters = {} THEN {} ELSE {LastOf(masters)}

\* static set_mode: the servers the mode change goes to.  The loop counts
\* the servers with an ok status in DBRM mode master and keeps the last.
set_mode_target(servers, statuses) ==
    LET masters  == {s \in servers :
                        Status_ok(statuses[s]) /\ statuses[s].dbrm_mode = "MASTER"}
        nMasters == Cardinality(masters)
        pMaster  == IF masters = {} THEN 0 ELSE LastOf(masters)
    IN  IF nMasters = 0 THEN {}
        ELSE IF nMasters # 1 THEN {}
        ELSE {pMaster}

\* the record of a call that changes transaction states
TrxCall(op, servers, warned, ok_servers) ==
    [NoCsHist EXCEPT !.op = op, !.servers = servers, !.warned = warned,
                     !.ok_servers = ok_servers]

\* CsMonitorServer::begin
Begin ==
    \E s \in CsServers, ok \in BOOLEAN :
       /\ m_trx_state' = [m_trx_state EXCEPT ![s] = IF ok THEN TRX_ACTIVE ELSE @]
       /\ cs_hist' = TrxCall("begin", {s}, m_trx_state[s] # TRX_INACTIVE,
                             IF ok THEN {s} ELSE {})
       /\ UNCHANGED <<writerState, eventVars>>

\* CsMonitorServer::commit
Commit ==
    \E s \in CsServers, ok \in BOOLEAN :
       /\ m_trx_state' = [m_trx_state EXCEPT ![s] = TRX_ACTIVE]
       /\ cs_hist' = TrxCall("commit", {s}, m_trx_state[s] # TRX_ACTIVE,
                             IF ok THEN {s} ELSE {})
       /\ UNCHANGED <<writerState, eventVars>>

\* CsMonitorServer::rollback
Rollback ==
    \E s \in CsServers, ok \in BOOLEAN :
       /\ m_trx_state' = [m_trx_state EXCEPT ![s] = TRX_ACTIVE]
       /\ cs_hist' = TrxCall("rollback", {s}, m_trx_state[s] # TRX_ACTIVE,
                             IF ok THEN {s} ELSE {})
       /\ UNCHANGED <<writerState, eventVars>>

\* static CsMonitorServer::begin
BeginAll ==
    \E servers \in SUBSET CsServers : \E oks \in SUBSET servers :
       /\ m_trx_state' = [s \in CsServers |->
                             IF s \notin servers THEN m_trx_state[s]
                             ELSE IF s \in oks THEN TRX_ACTIVE ELSE TRX_INACTIVE]
       /\ cs_hist' = TrxCall("begin_all", servers,
                             \E s \in servers : m_trx_state[s] = TRX_ACTIVE, oks)
       /\ UNCHANGED <<writerState, eventVars>>

\* static CsMonitorServer::commit
CommitAll ==
    \E servers \in SUBSET CsServers : \E oks \in SUBSET servers :
       /\ m_trx_state' = [s \in CsServers |->
                             IF s \in servers THEN TRX_INACTIVE ELSE m_trx_state[s]]
       /\ cs_hist' = TrxCall("commit_all", servers,
                             \E s \in servers : m_trx_state[s] # TRX_ACTIVE, oks)
       /\ UNCHANGED <<writerState, eventVars>>

\* static CsMonitorServer::rollback
RollbackAll ==
    \E servers \in SUBSET CsServers : \E oks \in SUBSET servers :
       /\ m_trx_state' = [s \in CsServers |->
                             IF s \in servers THEN TRX_INACTIVE ELSE m_trx_state[s]]
       /\ cs_hist' = TrxCall("rollback_all", servers,
                             \E s \in servers : m_trx_state[s] # TRX_ACTIVE, oks)
       /\ UNCHANGED <<writerState, eventVars>>

\* CsMonitorServer::set_mode
SetMode ==
    \E s \in CsServers, ok \in BOOLEAN :
       /\ cs_hist' = [NoCsHist EXCEPT !.op = "set_mode", !.servers = {s},
                                      !.ok_servers = IF ok THEN {s} ELSE {},
                                      !.mode_calls = {s}, !.mode_ok = ok, !.rv = ok]
       /\ UNCHANGED <<m_trx_state, writerState, eventVars>>

\* static CsMonitorServer::set_mode
SetModeAll ==
    \E servers \in SUBSET CsServers : \E results \in [servers -> HttpResults] :
       LET statuses == fetch_statuses(servers, results)
           target   == set_mode_target(servers, statuses.second)
       IN  \E ok \in IF target = {} THEN {FALSE} ELSE BOOLEAN :
              /\ cs_hist' = [NoCsHist EXCEPT
                                !.op = "set_mode_all", !.servers = servers,
                                !.warned = statuses.first # Cardinality(servers),
                                !.ok_servers = {s \in servers : results[s].ok},
                                !.statuses = statuses.second,
                                !.mode_calls = target, !.mode_ok = ok,
                                !.rv = IF target = {} THEN FALSE ELSE ok]
              /\ UNCHANGED <<m_trx_state, writerState, eventVars>>

NextCs ==
    \/ Begin \/ Commit \/ Rollback
    \/ BeginAll \/ CommitAll \/ RollbackAll
    \/ SetMode \/ SetModeAll

SpecCs == InitEvent /\ [][NextCs]_vars

(***************************************************************************)
(* Properties.                                                             *)
(***************************************************************************)
\* the list holds gtid g
Holds(list, g) == \E i \in 1..Len(list) : list[i] = g

\* the checkpoint file holds the current list, which holds the gtid of the last
\* GTID event
CheckpointReflectsGtid ==
    /\ gtid_file = to_string(m_current_gtid_list)
    /\ hist.s.txn_gtid # <<>>
    /\ Holds(m_current_gtid_list, hist.s.txn_gtid[1])

\* C1: for a GTID event (not standalone) followed by query events that are no
\* commit and other events, and then an XID event, all in one session, no
\* checkpoint is written before the XID event and exactly one is written by the
\* time the XID event is processed, holding the gtid of the GTID event.
C1_OneCheckpointAfterXid ==
    /\ hist.s.shape = "open" => hist.s.writes = 0
    /\ hist.s.shape = "closed_xid" => hist.s.writes = 1 /\ CheckpointReflectsGtid

\* C2: after GTID(STANDALONE) no checkpoint is written until the QUERY event;
\* when the QUERY event is processed exactly one has been written, holding the
\* gtid of the statement, and commit-on-query is cleared; the transaction that
\* follows the pair gets no checkpoint from the statement: none is written
\* before its own XID event, and the one at its XID holds its own gtid.
C2_StandaloneCheckpointAtQuery ==
    /\ hist.s.shape = "sa" => hist.s.writes = 0
    /\ hist.s.shape = "sa_done" =>
            hist.s.writes = 1 /\ CheckpointReflectsGtid /\ ~m_commit_on_query
    /\ hist.s.after_sa /\ hist.s.shape = "open" => hist.s.writes = 0
    /\ hist.s.after_sa /\ hist.s.shape = "closed_xid" =>
            hist.s.writes = 1 /\ CheckpointReflectsGtid

\* C2 witness: a standalone pair was completed and the transaction after it
\* has just been closed by its XID event
C2_Witness ==
    /\ hist.s.after_sa
    /\ hist.s.shape = "closed_xid"
    /\ hist.s.writes = 1
    /\ pc = "inner"

\* C3: once a GTID event is processed, the list holds for its domain the gtid
\* with the server id of the event's header and the event's sequence number.
C3_GtidCarriesServerId ==
    pc = "inner" /\ rpl_event.type = "GTID_EVENT" =>
        Holds(m_current_gtid_list,
              Gtid(rpl_event.domain_id, rpl_event.server_id, rpl_event.sequence_nr))

\* the next request follows a stream error in a session that advanced the
\* list, and the operator has not changed the bootstrap list
AfterStreamErrorOfAdvancedSession ==
    /\ pc = "start_repl"
    /\ hist.f.failure = "StreamError"
    /\ hist.f.advanced
    /\ ~hist.f.op_changed

\* C4 as claimed: after a stream error in a session that advanced the list,
\* with the bootstrap list not changed by the operator, the writer has waited
\* the second and the next request is made from the list as it was at the
\* failure.
C4_ResumesFromAdvancedList ==
    AfterStreamErrorOfAdvancedSession =>
        m_current_gtid_list = hist.f.failed_list /\ hist.f.backoff = "timeout"

\* C4 amended: in that situation the writer has waited and makes the request
\* from the advanced list only when the bootstrap list it read was textually
\* the advanced list; otherwise it makes the request from the bootstrap list
\* and has not waited.
C4_ResumesFromAdvancedListIfPersisted ==
    AfterStreamErrorOfAdvancedSession =>
        IF to_string(new_gtid_list) = to_string(hist.f.failed_list)
        THEN m_current_gtid_list = hist.f.failed_list /\ hist.f.backoff = "timeout"
        ELSE m_current_gtid_list = new_gtid_list /\ hist.f.backoff = "none"

\* C4 witness: the advanced list was the bootstrap list, the writer waited and
\* is about to request replication from it
C4_Witness ==
    /\ AfterStreamErrorOfAdvancedSession
    /\ hist.f.backoff = "timeout"
    /\ is_valid(m_current_gtid_list)
    /\ m_current_gtid_list = hist.f.failed_list

\* C5: after a failure whose handler found the bootstrap list textually equal
\* to the current list, the list is unchanged, and a next connection attempt
\* is under way only if the wait ended by the second being over or by the stop
\* being requested.
C5_BackoffBeforeRetry ==
    hist.f.handled = "same" =>
        /\ m_current_gtid_list = hist.f.failed_list
        /\ pc \in ConnectingPcs => hist.f.backoff \in {"timeout", "shutdown"}
        /\ pc \in WaitPcs => hist.f.backoff = "none"

\* C5 witness: the wait timed out and the next attempt is connecting
C5_Witness ==
    /\ hist.f.handled = "same"
    /\ pc = "connect"
    /\ hist.f.backoff = "timeout"

\* C6: after a failure whose handler found the bootstrap list textually
\* different from the current list, the list is the bootstrap list read by the
\* handler up to and including the next start_replication, and no wait has
\* taken place.
C6_AdoptWithoutBackoff ==
    hist.f.handled = "adopted" /\ pc \in ({"loop", "stopped"} \cup ConnectingPcs) =>
        /\ m_current_gtid_list = new_gtid_list
        /\ to_string(new_gtid_list) # to_string(hist.f.failed_list)
        /\ hist.f.backoff = "none"
        /\ elapsed = 0

\* C6 witness: a new, valid bootstrap list was adopted and the next request is
\* about to be made
C6_Witness ==
    /\ hist.f.handled = "adopted"
    /\ pc = "start_repl"
    /\ is_valid(m_current_gtid_list)

\* every gtid of the list with its sequence number one lower, 0 staying 0
OneBefore(list) ==
    [i \in 1..Len(list) |->
        Gtid(list[i].domain_id, list[i].server_id,
             IF list[i].sequence_nr = 0 THEN 0 ELSE list[i].sequence_nr - 1)]

\* C7: a start_replication request carries the bootstrap list the writer read,
\* each gtid one sequence number lower, when there is no replication state on
\* disk and that bootstrap list has entries; otherwise it carries the current
\* list as it is.
C7_StartGtids ==
    [][pc = "start_repl" /\ pc' = "inner" =>
          requested' = IF rpl_state_empty /\ is_valid(new_gtid_list)
                       THEN OneBefore(new_gtid_list)
                       ELSE m_current_gtid_list]_vars

\* C7 witness: a request was made one before the configured bootstrap gtid
C7_Witness ==
    /\ pc = "inner"
    /\ rpl_state_empty
    /\ is_valid(new_gtid_list)
    /\ requested = OneBefore(new_gtid_list)
    /\ requested # m_current_gtid_list

\* C8: the background thread writes the list only while it holds m_lock, so
\* never while a reader is copying it.
C8_ListWrittenUnderLock ==
    pc \in {"upd_write", "adopt"} => m_lock = "writer" /\ reader_pc # "copying"

\* C9: once ~Writer has notified, a thread blocked in the wait has the wake-up.
C9_WakeupNotLost ==
    pc = "blocked" /\ dtor_pc \in {"join", "joined"} => woken

C11_RetriesAfterFailure ==
    /\ [](pc = "stopped" => ~m_running)
    /\ (pc = "catch") ~> (pc = "details" \/ ~m_running)

\* C11 witness: after an I/O error and the back-off wait the thread is
\* connecting again, with the stop not requested
C11_Witness ==
    /\ pc = "details"
    /\ hist.f.failure = "IoError"
    /\ hist.f.backoff = "timeout"
    /\ m_running

\* C12: the thread is about to write the checkpoint file only with the
\* transaction of the file writer committed, and what it writes is the text of
\* the in-memory list; when commit_txn fails (the step from the event's case to
\* the catch block) the checkpoint file is left as it was.
C12_CommitThenWrite ==
    [][/\ pc = "save_write" => ~in_txn
       /\ pc = "save_write" /\ pc' # pc => gtid_file' = to_string(m_current_gtid_list)
       /\ pc = "classify" /\ pc' = "catch" => gtid_file' = gtid_file]_vars

\* C12 witness: a transaction was committed and the checkpoint written at its
\* XID event
C12_Witness ==
    /\ pc = "inner"
    /\ hist.s.saved
    /\ hist.s.shape = "closed_xid"
    /\ gtid_file = to_string(m_current_gtid_list)

\* C13 as claimed: once an XID event is processed the checkpoint was persisted:
\* the file was written with the text of the list and no transaction is open.
C13_XidAlwaysPersists ==
    pc = "inner" /\ rpl_event.type = "XID_EVENT" =>
        hist.s.saved /\ gtid_file = to_string(m_current_gtid_list) /\ ~in_txn

\* C13 amended: once an XID event is processed the checkpoint was persisted if
\* and only if the list has entries; with an empty list the file was not
\* written.
C13_XidPersistsValidList ==
    pc = "inner" /\ rpl_event.type = "XID_EVENT" =>
        IF is_valid(m_current_gtid_list)
        THEN hist.s.saved /\ gtid_file = to_string(m_current_gtid_list) /\ ~in_txn
        ELSE ~hist.s.saved

\* C13 witness: an XID event was processed with a list that has entries
C13_Witness ==
    /\ pc = "inner"
    /\ rpl_event.type = "XID_EVENT"
    /\ is_valid(m_current_gtid_list)
    /\ hist.s.saved

\* the domains that have an entry in the list
DomainsOf(list) == {list[i].domain_id : i \in 1..Len(list)}

\* the entries the list holds for domain d
EntriesOf(list, d) == SelectSeq(list, LAMBDA g : g.domain_id = d)

\* at most one gtid per domain
OnePerDomain(list) == \A d \in DomainsOf(list) : Len(EntriesOf(list, d)) = 1

\* C14: the in-memory list holds at most one gtid per domain at all times; the
\* step that merges the gtid decoded from a GTID event sets the entry of the
\* event's domain to that gtid and leaves the entries of all other domains as
\* they were.
C14_OneGtidPerDomain ==
    [][/\ OnePerDomain(m_current_gtid_list) /\ OnePerDomain(m_current_gtid_list')
       /\ pc = "upd_write" /\ pc' = "inner" =>
            \A d \in DomainsOf(m_current_gtid_list) \cup DomainsOf(m_current_gtid_list')
                     \cup {rpl_event.domain_id} :
                EntriesOf(m_current_gtid_list', d) =
                    IF d = rpl_event.domain_id
                    THEN <<gtid_event(rpl_event).gtid>>
                    ELSE EntriesOf(m_current_gtid_list, d)]_vars

\* C14 witness: a GTID event replaced one entry of a list that holds two
\* domains
C14_Witness ==
    /\ pc = "inner"
    /\ rpl_event.type = "GTID_EVENT"
    /\ Len(m_current_gtid_list) = 2
    /\ hist.advancing

\* C15: the in-memory list, built by replace, is what from_string reads from
\* its own text; and once save_gtid_list has written the checkpoint file, the
\* list read back from the file is the list that was written.
C15_TextRoundTrip ==
    /\ from_string(to_string(m_current_gtid_list)) = m_current_gtid_list
    /\ pc = "inner" /\ hist.s.saved => from_string(gtid_file) = m_current_gtid_list

\* C15 witness: a list of two domains was written to the checkpoint file
C15_Witness ==
    /\ pc = "inner"
    /\ hist.s.saved
    /\ Len(m_current_gtid_list) = 2

TrailerIsCrc(raw) ==
    /\ Len(raw) >= 4
    /\ SubSeq(raw, Len(raw) - 3, Len(raw)) = set_byte(crc32(SubSeq(raw, 1, Len(raw) - 4)), 4)

\* C17: a buffer built by create_rotate_event or create_binlog_checkpoint ends
\* with the checksum of all bytes before its last four; recalculate_crc on
\* the event made from it leaves the buffer as it is and caches that checksum.
C17_SynthesizedCrc ==
    event_hist.by \in {"rotate", "checkpoint"} =>
        /\ TrailerIsCrc(event_hist.input)
        /\ event_hist.op = "recalculate_crc" =>
              /\ event.outcome = "parsed"
              /\ event.m_raw = event_hist.input
              /\ event.m_checksum =
                    crc32(SubSeq(event.m_raw, 1, Len(event.m_raw) - 4))

\* C17 witness: recalculate_crc was applied to a synthesized checkpoint event
\* with a file name
C17_Witness ==
    /\ event_hist.by = "checkpoint"
    /\ event_hist.op = "recalculate_crc"
    /\ Len(event_hist.file_name) = 2

\* after set_next_pos(p): offsets 13..16 hold p, the trailer holds the
\* checksum, the cached fields are what the buffer holds, and the length and
\* all other bytes and fields are as before
SelfConsistentAfterSetNextPos ==
    LET raw == event.m_raw
        old == event_hist.before
    IN  /\ event.outcome = "parsed"
        /\ Len(raw) = Len(old)
        /\ Len(raw) >= 17
        /\ SubSeq(raw, 14, 17) = set_byte(event_hist.arg, 4)
        /\ TrailerIsCrc(raw)
        /\ event.m_next_event_pos = event_hist.arg
        /\ event.m_next_event_pos = get_byte(raw, 13, 4)
        /\ event.m_checksum = get_byte(raw, Len(raw) - 4, 4)
        /\ \A i \in 1..Len(raw) :
              i \notin 14..17 /\ i <= Len(raw) - 4 => raw[i] = old[i]
        /\ event.m_event_type = old[5]
        /\ event.m_server_id = get_byte(old, 5, 4)
        /\ event.m_event_length = get_byte(old, 9, 4)
        /\ event.m_flags = get_byte(old, 17, 2)
        /\ event.m_timestamp = get_byte(old, 0, 4)

C19_HeaderRoundTrip ==
    event_hist.by \in {"rotate", "checkpoint"} /\ event_hist.op = "new" =>
        /\ event.outcome = "parsed"
        /\ event.m_event_type = IF event_hist.by = "rotate"
                                THEN ROTATE_EVENT ELSE BINLOG_CHECKPOINT_EVENT
        /\ event.m_server_id = event_hist.server_id
        /\ event.m_event_length = Len(event.m_raw)
        /\ event.m_next_event_pos = event_hist.pos
        /\ event.m_flags = IF event_hist.by = "rotate" /\ event_hist.artificial
                           THEN LOG_EVENT_ARTIFICIAL_F ELSE 0

\* C19 witness: an artificial rotate event with a server id of two bytes was
\* parsed
C19_Witness ==
    /\ event_hist.by = "rotate"
    /\ event_hist.op = "new"
    /\ event_hist.artificial
    /\ event.m_server_id = 201
    /\ event.m_next_event_pos = 1000

\* C20: the construction of an event from a buffer of fewer than 19 bytes
\* fails with TruncatedEvent.
C20_TruncatedEvent ==
    event_hist.op = "new" /\ Len(event_hist.input) < HEADER_LEN =>
        event.outcome = "TruncatedEvent"

\* the step that ends the processing of the QUERY_EVENT in hand
QueryEventDone ==
    /\ pc \in {"classify", "save_write"}
    /\ rpl_event.type = "QUERY_EVENT"
    /\ pc' = "inner"

\* the QUERY_EVENT in hand is neither awaited by a standalone GTID event nor a
\* commit: the step of the thread goes straight on, with no commit and no write
PlainQueryEventIsOnlyStored ==
    pc = "classify" /\ pc' # pc /\ rpl_event.type = "QUERY_EVENT"
    /\ ~m_commit_on_query /\ ~rpl_event.commit =>
        /\ pc' = "inner"
        /\ ~hist'.s.saved
        /\ gtid_file' = gtid_file
        /\ in_txn' = in_txn

GtidState == <<m_current_gtid_list, m_commit_on_query, in_txn, gtid_file>>

\* the event in hand has a type the switch has no case for
OtherEventInHand ==
    /\ rpl_event.type \notin {"NONE", "GTID_EVENT", "QUERY_EVENT", "XID_EVENT"}
    /\ pc \in {"add_event", "classify"}

\* C23: an event that is no GTID_EVENT, QUERY_EVENT or XID_EVENT (a heartbeat
\* for one) is appended to storage, and its processing leaves the in-memory
\* list, the commit-on-query flag, the transaction of the file writer and the
\* checkpoint file as they are.
C23_OtherEventsOnlyStored ==
    [][OtherEventInHand /\ pc' # "catch" =>
          /\ UNCHANGED GtidState
          /\ pc = "classify" /\ pc' # pc =>
                /\ hist.s.appends = 1
                /\ pc' = "inner"
                /\ ~hist'.s.saved]_vars

\* C23 witness: a heartbeat was processed inside an open transaction while
\* the flag was set
C23_Witness ==
    /\ pc = "inner"
    /\ rpl_event.type = "HEARTBEAT_LOG_EVENT"
    /\ in_txn
    /\ m_commit_on_query
    /\ hist.s.appends = 1

\* positions at which the classification of the event in hand takes effect
ClassifyingPcs == {"classify", "upd_lock", "upd_write", "save_write"}

\* C24: every event pulled is handed to add_event exactly once and before any
\* effect of its classification; if add_event fails, the event changes
\* neither the in-memory list, nor the commit-on-query flag, nor the
\* checkpoint file.
C24_AppendFirstAndOnce ==
    [][/\ hist.s.appends <= 1
       /\ pc \in ClassifyingPcs => hist.s.appends = 1
       /\ pc = "add_event" => hist.s.appends = 0
       /\ pc \in {"get_msg", "add_event"} /\ pc' # "catch" => UNCHANGED GtidState
       /\ pc = "add_event" /\ pc' = "catch" =>
             UNCHANGED <<m_current_gtid_list, m_commit_on_query, gtid_file>>
       /\ pc \in StreamingPcs /\ pc' \in StreamingPcs /\ ~(UNCHANGED GtidState) =>
             pc \in ClassifyingPcs]_vars

\* C24 witness: the list is about to be updated for a GTID event that was
\* appended once
C24_Witness ==
    /\ pc = "upd_write"
    /\ hist.s.appends = 1
    /\ in_txn
    /\ rpl_event.type = "GTID_EVENT"

\* C25: the mutex of the back-off wait is used for nothing but that wait: it
\* is owned only by the background thread inside m_cond.wait_for.
C25_WaitMutexOnlyForWait ==
    m_lock # "none" => m_lock = "writer" /\ pc \in WaitPcs

\* positions at which the thread is inside a call to the connection or the
\* file writer, writes the checkpoint file, or sleeps in the back-off wait
IoPcs == {"connect", "start_repl", "get_msg", "add_event", "classify",
          "save_write", "blocked"}

\* C26: the background thread does not own m_lock while it is inside network
\* or file I/O or blocked in the back-off wait; it owns it only around the
\* update of the list and the test of the wait's predicate, so that
\* get_gtid_io_pos finds the mutex free during I/O and back-off.
C26_NoLockDuringIo ==
    /\ pc \in IoPcs => m_lock # "writer"
    /\ m_lock = "writer" => pc \in {"upd_write", "wait_pred", "wait_enter"}
    /\ pc \in IoPcs /\ reader_pc = "idle" => m_lock = "none"

\* C26 witness: get_gtid_io_pos copies the list while the thread is blocked
\* in the back-off wait
C26_Witness ==
    /\ pc = "blocked"
    /\ reader_pc = "copying"
    /\ m_lock = "reader"
    /\ elapsed > 0

\* positions between the append of an event and the end of its processing
ProcessingPcs == {"add_event", "classify", "upd_lock", "upd_write", "save_write"}

\* C27: after m_running has become false at most one more event is pulled
\* from the connection, and the thread leaves the streaming loop only at the
\* top of the loop or by an error, never between the append of an event and
\* the effects of its classification.
C27_StopsBetweenEvents ==
    [][/\ hist.late_pulls <= 1
       /\ pc \in ProcessingPcs /\ pc' # pc => pc' \in StreamingPcs \cup {"catch"}
       /\ pc \in StreamingPcs /\ pc' = "loop" => pc = "inner" /\ ~m_running
       /\ pc = "inner" /\ pc' = "get_msg" => m_running]_vars

\* C27 witness: the thread has stopped without a failure after it had pulled
\* and processed one event with the flag already false
C27_Witness ==
    /\ pc = "stopped"
    /\ hist.late_pulls = 1
    /\ hist.f.failure = "none"
    /\ gtid_file # <<>>

\* C28: rotate() returns is_fake true exactly if the four timestamp bytes of
\* the header are 0, and is_artifical true exactly if the bit
\* LOG_EVENT_ARTIFICIAL_F of the flags is set, whatever the other header
\* fields and flag bits are.
C28_RotateFlags ==
    event_hist.op = "rotate" =>
        /\ event_hist.result.is_fake <=>
              SubSeq(event.m_raw, 1, 4) = <<0, 0, 0, 0>>
        /\ event_hist.result.is_artifical <=>
              (event.m_raw[17 + 1] \div LOG_EVENT_ARTIFICIAL_F) % 2 = 1

\* C28 witness: an event with a timestamp other than 0 and with the
\* artificial bit among other flag bits was decoded
C28_Witness ==
    /\ event_hist.op = "rotate"
    /\ event_hist.by = "rotate_buffer"
    /\ ~event_hist.result.is_fake
    /\ event_hist.result.is_artifical
    /\ event.m_flags # LOG_EVENT_ARTIFICIAL_F

\* C29: rotate() on the event built by create_rotate_event returns the file
\* name given and is_artifical exactly if the kind was Artificial; the buffer
\* has 19 + 8 + length(file_name) + 4 bytes.
C29_RotateRoundTrip ==
    event_hist.by = "rotate" =>
        /\ Len(event_hist.input) = 19 + 8 + Len(event_hist.file_name) + 4
        /\ event_hist.op = "rotate" =>
              /\ event_hist.result.file_name = event_hist.file_name
              /\ event_hist.result.is_artifical <=> event_hist.artificial

\* C29 witness: an artificial rotate event with a file name of two bytes was
\* built and decoded
C29_Witness ==
    /\ event_hist.by = "rotate"
    /\ event_hist.op = "rotate"
    /\ event_hist.artificial
    /\ event_hist.result.file_name = <<98, 105>>

\* the lengths of the db name and of the status variables as the body of the
\* query event in hand holds them, and the length left for the SQL text
BodyDbLen == event.m_raw[HEADER_LEN + DBNM_OFF + 1]
BodyVarLen == get_byte(event.m_raw, HEADER_LEN + VBLK_OFF, 2)
BodySqlStart == HEADER_LEN + PHDR_OFF + BodyVarLen + BodyDbLen + 1
BodySqlLen ==
    event.m_event_length - HEADER_LEN - (PHDR_OFF + BodyVarLen + 1 + BodyDbLen)

\* C30: for a well-formed QUERY event query_event_sql returns the bytes that
\* follow post-header, status variables, db name and null byte, of length
\* event_length - 19 - (post_header_offset + var_block_len + 1 + db_name_len),
\* with both lengths read from the body; for another event it returns the
\* empty string.
C30_QuerySqlText ==
    event_hist.op = "query_event_sql" =>
        IF event_hist.by = "query"
        THEN /\ event_hist.result.outcome = "text"
             /\ event_hist.result.sql =
                   SubSeq(event.m_raw, BodySqlStart + 1, BodySqlStart + BodySqlLen)
        ELSE event.m_event_type # QUERY_EVENT =>
                /\ event_hist.result.outcome = "text"
                /\ event_hist.result.sql = <<>>

\* C21: query_event_sql on a QUERY event whose computed length of the SQL text
\* is negative fails with MalformedQueryEvent and returns no text.
C21_NegativeLengthFails ==
    /\ event_hist.op = "query_event_sql"
    /\ event_hist.by = "query_short"
    /\ BodySqlLen < 0
    => event_hist.result.outcome = "MalformedQueryEvent"

\* C37: every buffer built by create_rotate_event, of either kind, has the
\* timestamp 0 and the position 4 in its payload, and rotate() on it returns
\* is_fake true.
C37_SynthesizedRotateIsFake ==
    event_hist.by = "rotate" =>
        /\ SubSeq(event_hist.input, 1, 4) = <<0, 0, 0, 0>>
        /\ SubSeq(event_hist.input, HEADER_LEN + 1, HEADER_LEN + 8)
              = <<4, 0, 0, 0, 0, 0, 0, 0>>
        /\ event_hist.op = "rotate" => event_hist.result.is_fake

\* C37 witness: a rotate event that is not artificial was built and decoded
C37_Witness ==
    /\ event_hist.by = "rotate"
    /\ event_hist.op = "rotate"
    /\ ~event_hist.artificial
    /\ ~event_hist.result.is_artifical
    /\ event_hist.result.is_fake

\* C31: gtid_event returns the sequence number, the domain id and the flags
\* the body holds, and as commit id the eight bytes behind the flags if the
\* group-commit bit is set in the flags, 0 otherwise.
C31_GtidEventDecoded ==
    event_hist.op = "gtid_event" =>
        /\ event_hist.result.gtid.sequence_nr = event_hist.body.sequence_nr
        /\ event_hist.result.gtid.domain_id = event_hist.body.domain_id
        /\ event_hist.result.flags = event_hist.body.flags
        /\ event_hist.result.commit_id =
              IF (event_hist.body.flags \div FL_GROUP_COMMIT_ID) % 2 = 1
              THEN get_byte(event_hist.body.tail, 0, 8)
              ELSE 0

\* C31 witness: a GTID event without the group-commit bit, followed by bytes
\* that are not 0, was decoded
C31_Witness ==
    /\ event_hist.op = "gtid_event"
    /\ event_hist.body.flags = FL_STANDALONE
    /\ event_hist.body.tail # Zeroes(6)
    /\ event_hist.result.gtid.sequence_nr = ByteMod + 1
    /\ event_hist.result.commit_id = 0

\* the read at event_hist.arg finds a whole event in the file and no error
WholeEventRead ==
    LET file  == event_hist.input
        pos   == event_hist.arg
        avail == Len(file) - pos
    IN  /\ event_hist.body.failure = "none"
        /\ avail >= HEADER_LEN
        /\ get_byte(file, pos + 9, 4) >= HEADER_LEN
        /\ avail >= get_byte(file, pos + 9, 4)

\* C32: read_event returns the event that starts at *file_pos, of as many
\* bytes as the length field at offset 9 of its header says, and sets
\* *file_pos to the event's next_event_pos; at end of file or a read error in
\* header or body it returns an empty event and leaves *file_pos as it was.
C32_ReadEvent ==
    event_hist.op = "read_event" =>
        IF WholeEventRead
        THEN LET file == event_hist.input
                 pos  == event_hist.arg
                 len  == get_byte(file, pos + 9, 4)
             IN  /\ event.outcome = "parsed"
                 /\ Len(event.m_raw) = len
                 /\ event.m_raw = SubSeq(file, pos + 1, pos + len)
                 /\ event_hist.result.file_pos = get_byte(file, pos + 13, 4)
                 /\ event_hist.result.file_pos = event.m_next_event_pos
        ELSE /\ event = EmptyEvent
             /\ event_hist.result.file_pos = event_hist.arg

\* C32 witness: the second event of a file was read, and its next position
\* is not where the read began
C32_Witness ==
    /\ event_hist.op = "read_event"
    /\ event_hist.arg = 32
    /\ event.m_event_type = BINLOG_CHECKPOINT_EVENT
    /\ event_hist.result.file_pos = 60

\* C33: the commit-on-query flag does not outlive the standalone statement
\* that set it: it is false while a connection is being made, and false
\* while a transaction opened by a GTID event that is not standalone is
\* open, in which no checkpoint has been written.
C33_FlagDoesNotOutlive ==
    /\ pc \in ConnectingPcs => ~m_commit_on_query
    /\ hist.s.shape = "open" => ~m_commit_on_query /\ hist.s.writes = 0

\* ~Writer runs on the coordination worker and waits in join, while the
\* background thread waits for the worker to run the generator
JoinOnWorkerDuringCall ==
    /\ dtor_thread = "worker"
    /\ dtor_pc = "join"
    /\ pc = "details_wait"
    /\ call = "posted"

\* C34: when ~Writer, run by the coordination worker, blocks in join while
\* the background thread waits in get_connection_details for the worker,
\* the worker can still run the generator or the join can return.
C34_NoDeadlockOnWorker ==
    JoinOnWorkerDuringCall => ENABLED (WorkerRun \/ CallReturns \/ DtorJoin)

\* C35: once the failure handler has run, and up to the next request, the
\* in-memory list reads like the bootstrap list the handler read, which is
\* the checkpoint; the request that follows carries that list or the gtids
\* one before it, nothing ahead of it.
C35_ListIsCheckpointAfterFailure ==
    [][/\ hist.f.handled # "none" /\ pc \in ({"loop", "stopped"} \cup ConnectingPcs) =>
             /\ to_string(m_current_gtid_list) = to_string(new_gtid_list)
             /\ to_string(m_current_gtid_list) = gtid_file
       /\ hist.f.handled # "none" /\ pc = "start_repl" /\ pc' = "inner" =>
             requested' \in {from_string(gtid_file), OneBefore(from_string(gtid_file))}]_vars

\* C35 witness: after a GTID event that was not committed and a failure, the
\* list is back at the checkpoint and the next request is about to be made
C35_Witness ==
    /\ pc = "start_repl"
    /\ hist.f.handled = "adopted"
    /\ hist.f.advanced
    /\ ~hist.f.op_changed
    /\ m_current_gtid_list # hist.f.failed_list
    /\ to_string(m_current_gtid_list) = gtid_file

\* C36: a failure handler adopts the bootstrap list only if the handler
\* before it did not, or a GTID event was processed or the bootstrap list
\* changed since; after a handler that found the lists equal no attempt is
\* under way before the wait has ended.
C36_NoRepeatedImmediateRetry ==
    [][/\ pc = "catch" /\ pc' = "adopt" => ~hist.adopted_last
       /\ pc = "catch" /\ pc' # pc /\ hist.adopted_last => pc' = "wait_lock"
       /\ hist.f.handled = "same" /\ pc \in ConnectingPcs =>
             hist.f.backoff \in {"timeout", "shutdown"}]_vars

\* C36 witness: the attempt that followed an adoption has failed to connect
\* and the handler is about to run
C36_Witness ==
    /\ pc = "catch"
    /\ hist.adopted_last
    /\ hist.f.failure = "ConnectFailed"
    /\ is_valid(m_current_gtid_list)

(***************************************************************************)
(* CsMonitorServer.                                                        *)
(***************************************************************************)
\* C38: after commit or rollback has returned, for one server or for
\* several, every server it was called for is in the inactive transaction
\* state, whatever the HTTP result was
C38_InactiveAfterCommitOrRollback ==
    cs_hist.op \in {"commit", "rollback", "commit_all", "rollback_all"}
        => \A s \in cs_hist.servers : m_trx_state[s] = TRX_INACTIVE

\* C39: the set_mode for several servers sends the mode change to the one
\* server whose status is ok and says DBRM mode master, and returns what
\* that call returned; with no such server or with several it sends the
\* change to no server and returns false
C39_SetModeUniqueMaster ==
    cs_hist.op = "set_mode_all" =>
        LET masters == {s \in cs_hist.servers :
                           /\ cs_hist.statuses[s].response_ok
                           /\ cs_hist.statuses[s].sJson
                           /\ cs_hist.statuses[s].dbrm_mode = "MASTER"}
        IN  IF Cardinality(masters) = 1
            THEN cs_hist.mode_calls = masters /\ cs_hist.rv = cs_hist.mode_ok
            ELSE cs_hist.mode_calls = {} /\ cs_hist.rv = FALSE

\* a mode change that went to the one ok master among three servers, of
\* which another also says master but with a failed status, and succeeded
C39_Witness ==
    /\ cs_hist.op = "set_mode_all"
    /\ Cardinality(cs_hist.servers) = 3
    /\ cs_hist.rv
    /\ \E m \in cs_hist.servers :
          /\ cs_hist.mode_calls = {m}
          /\ Status_ok(cs_hist.statuses[m])
          /\ \E o \in cs_hist.servers \ {m} :
                /\ cs_hist.statuses[o].dbrm_mode = "MASTER"
                /\ ~cs_hist.statuses[o].response_ok

====
